---- MODULE Spec2Model ----
(***************************************************************************)
(* State-machine model of the WebReal3D render-resource orchestration      *)
(* (packages/core/src/renderer): PipelineCache, SkyboxPass, RenderTargets, *)
(* MeshPass and Renderer.render.  GPU objects are modelled by identity     *)
(* (fresh natural numbers), uniform buffers byte by byte.                  *)
(***************************************************************************)
EXTENDS Integers, Sequences, FiniteSets, TLC

VARIABLES
    \* ---- PipelineCache ----
    pipelineCache,   \* _pipelineCache: Map<string, GPURenderPipeline>
    nextPipeline,    \* identity of the next pipeline device.createRenderPipeline returns
    built,           \* history: every pipeline ever built, with its pair and epoch
    returned,        \* history: every (pair, epoch, pipeline) a getOrCreate call returned
    epoch,           \* history: number of clear() calls so far
    lastCall,        \* the last PipelineCache call and its outcome
    \* ---- SkyboxPass ----
    skyResources,    \* _resources?: SkyboxGPUResources (NoResources when undefined)
    skyNext,         \* identity of the next object the device creates for the pass
    skyRevision,     \* material.bindingRevision of every skybox material
    skyDestroyCount, \* history: how often destroy() was called on each uniform buffer
    skyBuffers,      \* history: the uniform buffers the pass has created
    lastSky,         \* the last SkyboxPass call and what it did
    prevSky,         \* the SkyboxPass call before that
    \* ---- RenderTargets ----
    depthTexture,    \* _depthTexture
    msaaTexture,     \* _msaaTexture
    texNext,         \* identity of the next texture device.createTexture returns
    liveTextures,    \* textures created by RenderTargets and not destroyed
    observing,       \* the ResizeObserver is connected to the canvas
    lastTargets,     \* the device calls of the last RenderTargets handler, in order
    \* ---- Renderer.render and MeshPass ----
    pc,              \* position of the render call: "idle" or "recording"
    view,            \* camera state of the frame (changes between frames)
    frameMeshes,     \* meshes collected by the traversal of this frame
    meshIdx,         \* index of the next mesh the mesh pass processes
    bound,           \* attachment textures whose views beginRenderPass bound
    frameLog,        \* device and encoder calls of this frame, in order
    outcome,         \* how the last render call ended
    meshMaterial,    \* mesh.material of every mesh
    meshResources,   \* MeshResourceCache: mesh -> resource record
    bufferData,      \* bytes of every live uniform buffer
    bufNext,         \* per mesh, the number of the next uniform buffer created for it
    scratch,         \* getUniformDataBuffer() of the materials that keep one
    swaps,           \* how many times mesh.material has been assigned
    \* ---- Object3D, Scene ----
    parent,          \* Object3D.parent of every node (Null when null)
    children,        \* Object3D.children of every node
    position,        \* Object3D.position of every node (x component)
    visible,         \* Object3D.visible of every node
    localMatrix,     \* Object3D.localMatrix of every node
    worldMatrix,     \* Object3D.worldMatrix of every node
    sceneSkybox,     \* scene.skyboxMaterial (0 when undefined)
    lastGraph,       \* the last add or remove call and what it found
    lastRefresh,     \* what the refresh and traversal of the last render call did
    edits,           \* how many times the application has edited the scene
    \* ---- Mesh: geometry and bounding box ----
    meshGeometry,    \* mesh.geometry of every mesh (a BoxGeometry, by its size)
    boundingBox,     \* the cached bounding box of every mesh (NoBox when none)
    boxNext,         \* per mesh, the number of the next BoundingBox made for it
    sinceAssign,     \* history: the box read since mesh.geometry was last assigned
    lastBox,         \* the last geometry assignment or boundingBox read
    \* ---- Texture.fromURL ----
    loads,           \* every fromURL call: its position and what it holds
    \* ---- PBRMaterial ----
    contextLights,   \* context.lights: the kinds of the lights, in order
    pbrWritten,      \* what the last PBRMaterial.writeUniformData call wrote
    \* ---- ShaderMaterial ----
    shaderMaterials, \* the ShaderMaterial objects constructed, in order
    lastShader,      \* the last `new ShaderMaterial(options)`: how it ended
    \* ---- BRDFLut (one device) ----
    lutCache,        \* BRDFLut._cache.get(device): a texture, 0 for none
    lutPending,      \* BRDFLut._pendingGenerations.get(device): a promise, 0 for none
    lutPromises,     \* the promises _generateAsync has returned: texture and state
    lutNext,         \* the number of the next LUT texture generated
    lutCalls         \* every get / getAsync call: its position and its result

pcVars == <<pipelineCache, nextPipeline, built, returned, epoch, lastCall>>

skyVars == <<skyResources, skyNext, skyRevision, skyDestroyCount, skyBuffers,
             lastSky, prevSky>>

rtVars == <<depthTexture, msaaTexture, texNext, liveTextures, observing, lastTargets>>

frameVars == <<pc, view, frameMeshes, meshIdx, bound, frameLog, outcome>>

meshVars == <<meshMaterial, meshResources, bufferData, bufNext, scratch, swaps>>

graphVars == <<parent, children, position, visible, localMatrix, worldMatrix,
               sceneSkybox, lastGraph, lastRefresh, edits>>

matVars == <<contextLights, pbrWritten>>

shaderVars == <<shaderMaterials, lastShader>>

lutVars == <<lutCache, lutPending, lutPromises, lutNext, lutCalls>>

assetVars == <<meshGeometry, boundingBox, boxNext, sinceAssign, lastBox, loads,
               matVars, shaderVars, lutVars>>

vars == <<pcVars, skyVars, rtVars, frameVars, meshVars, graphVars, assetVars>>

----------------------------------------------------------------------------
(* Bounds of the model *)

\* how many pipeline objects the device hands out in one run
MaxPipelines == 3
\* how many clear() calls one run makes
MaxClears == 1
\* material instances per (type, topology) configuration
MaxInstances == 2
\* how many pipeline, buffer and bind group objects the skybox pass may create
MaxSkyObjects == 7
\* skybox material objects
MaxSkyMaterials == 2
\* how often one skybox material increments its bindingRevision
MaxRevision == 2
\* how many attachment textures the device hands out in one run
MaxTextures == 8
\* meshes of the scene
MaxMeshes == 2
\* how many uniform buffers are created for one mesh in one run
MaxBuffers == 2
\* how many times the application assigns a mesh's material in one run
MaxSwaps == 2
\* how many times the application edits the scene graph in one run
MaxEdits == 1
\* how many steps the application takes to set up a scene with a texture
MaxSetup == 3
\* geometry objects the application assigns to meshes
MaxGeometries == 2
\* how many BoundingBox objects are made for one mesh in one run
MaxBoxes == 2
\* how many Texture.fromURL calls one run makes
MaxLoads == 2
\* how many lights the render context holds at most
MaxLights == 5
\* how many ShaderMaterial objects one run constructs
MaxShaderMaterials == 3
\* how many BRDFLut.get / getAsync calls one run makes
MaxLutCalls == 4
\* depth of the call stack at which the engine throws a RangeError
MaxStack == 6
\* largest finite magnitude of a matrix element (Float32Array storage)
FloatMax == 40

----------------------------------------------------------------------------
(* PipelineCache *)

EmptyMap == [k \in {} |-> 0]

\* material.type values: plain kinds and a user-shader kind "shader_<hash>"
Kinds == {<<"pbr">>, <<"shader", "_", "h1">>}

\* material.getPrimitiveTopology() values
Topologies == {"triangle-list", "line-list"}

\* the materials handed to PipelineCache.getOrCreate
PCMaterials == [inst : 1..MaxInstances, type : Kinds, topology : Topologies]

\* mutant: the key leaves the topology out
PipelineKey_typeOnly(material) == material.type

\* const key = `${material.type}_${topology}`
PipelineKey(material) == material.type \o <<"_">> \o <<material.topology>>

\* mutant: the lookup is skipped, every call compiles a pipeline
PipelineCache_getOrCreate_nolookup(cache, next, material) ==
    LET key == PipelineKey(material)
    IN  [pipeline |-> next,
         cache    |-> [k \in DOMAIN cache \cup {key} |->
                          IF k = key THEN next ELSE cache[k]],
         next     |-> next + 1,
         created  |-> TRUE]

\* mutant: the pipeline is built and returned but never stored
PipelineCache_getOrCreate_nostore(cache, next, material) ==
    LET key == PipelineKey(material)
    IN  IF key \in DOMAIN cache
        THEN [pipeline |-> cache[key], cache |-> cache, next |-> next,
              created |-> FALSE]
        ELSE [pipeline |-> next, cache |-> cache, next |-> next + 1,
              created |-> TRUE]

\* getOrCreate(material): the cached pipeline of the key, or a new one, stored
PipelineCache_getOrCreate(cache, next, material) ==
    LET key == PipelineKey(material)
    IN  IF key \in DOMAIN cache
        THEN [pipeline |-> cache[key], cache |-> cache, next |-> next,
              created |-> FALSE]
        ELSE [pipeline |-> next,
              cache    |-> [k \in DOMAIN cache \cup {key} |->
                              IF k = key THEN next ELSE cache[k]],
              next     |-> next + 1,
              created  |-> TRUE]

\* mutant: clear() leaves the entries in place
PipelineCache_clear_keeps(cache) == cache

\* clear(): this._pipelineCache.clear()
PipelineCache_clear(cache) == EmptyMap

PCInit ==
    /\ pipelineCache = EmptyMap
    /\ nextPipeline = 1
    /\ built = {}
    /\ returned = {}
    /\ epoch = 0
    /\ lastCall = [op |-> "new"]

\* a caller invokes pipelines.getOrCreate(material)
GetOrCreate(material) ==
    LET r == PipelineCache_getOrCreate(pipelineCache, nextPipeline, material)
    IN  /\ r.next <= MaxPipelines + 1
        /\ pipelineCache' = r.cache
        /\ nextPipeline' = r.next
        /\ built' = IF r.created
                    THEN built \cup {[type |-> material.type,
                                      topology |-> material.topology,
                                      pipeline |-> r.pipeline,
                                      epoch |-> epoch,
                                      by |-> material.inst]}
                    ELSE built
        /\ returned' = returned \cup {[type |-> material.type,
                                       topology |-> material.topology,
                                       pipeline |-> r.pipeline,
                                       epoch |-> epoch]}
        /\ lastCall' = [op |-> "getOrCreate", material |-> material,
                        pipeline |-> r.pipeline, created |-> r.created]
        /\ UNCHANGED epoch
        /\ UNCHANGED <<skyVars, rtVars, assetVars, frameVars, meshVars, graphVars>>

\* a caller invokes pipelines.clear()
Clear ==
    /\ epoch < MaxClears
    /\ pipelineCache' = PipelineCache_clear(pipelineCache)
    /\ epoch' = epoch + 1
    /\ lastCall' = [op |-> "clear"]
    /\ UNCHANGED <<nextPipeline, built, returned>>
    /\ UNCHANGED <<skyVars, rtVars, assetVars, frameVars, meshVars, graphVars>>

PCNext ==
    \/ \E material \in PCMaterials : GetOrCreate(material)
    \/ Clear

----------------------------------------------------------------------------
(* SkyboxPass *)

NoResources == [none |-> TRUE]

SkyMaterials == 1..MaxSkyMaterials

\* destroy() on a uniform buffer
DestroyBuffer(count, buffer) ==
    [b \in DOMAIN count \cup {buffer} |->
        IF b = buffer
        THEN (IF b \in DOMAIN count THEN count[b] ELSE 0) + 1
        ELSE count[b]]

\* mutant: a changed bindingRevision is not noticed
SkyboxPass_revisionChanged_never(resources, revision) == FALSE

\* mutant: the revision is taken as changed on every call
SkyboxPass_revisionChanged_always(resources, revision) == TRUE

\* this._resources.bindingRevision !== material.bindingRevision
SkyboxPass_revisionChanged(resources, revision) ==
    resources.bindingRevision # revision

\* mutant: the record of another material is kept and reused
SkyboxPass_materialChanged_never(resources, material) == FALSE

\* this._resources.material !== material
SkyboxPass_materialChanged(resources, material) ==
    resources.material # material

\* _getOrCreateResources(material), material.bindingRevision = revision.
\* The result tells which objects the device created (`created`), how many
\* shader modules it compiled (`modules`), how many views of the material's 2D
\* texture it created (`views`) and which buffers were destroyed.
SkyboxPass_getOrCreateResources(resources, next, destroyCount, material, revision) ==
    LET \* if (this._resources && this._resources.material !== material)
        drop    == resources # NoResources
                   /\ SkyboxPass_materialChanged(resources, material)
        r1      == IF drop THEN NoResources ELSE resources
        count1  == IF drop THEN DestroyBuffer(destroyCount, resources.uniformBuffer)
                   ELSE destroyCount
        \* if (this._resources && same material && revision differs)
        rebind  == /\ r1 # NoResources
                   /\ ~SkyboxPass_materialChanged(r1, material)
                   /\ SkyboxPass_revisionChanged(r1, revision)
    IN  IF rebind
        THEN [resources    |-> [r1 EXCEPT !.bindGroup = next,
                                          !.bindGroupBuffer = r1.uniformBuffer,
                                          !.bindingRevision = revision],
              next         |-> next + 1,
              destroyCount |-> count1,
              created      |-> {next},
              buffers      |-> {},
              modules      |-> 0,
              views        |-> 1,
              destroyed    |-> {}]
        ELSE IF r1 = NoResources
        THEN [resources    |-> [pipeline |-> next,
                                uniformBuffer |-> next + 1,
                                bindGroup |-> next + 2,
                                bindGroupBuffer |-> next + 1,
                                material |-> material,
                                bindingRevision |-> revision],
              next         |-> next + 3,
              destroyCount |-> count1,
              created      |-> {next, next + 1, next + 2},
              buffers      |-> {next + 1},
              modules      |-> 2,
              views        |-> 1,
              destroyed    |-> IF drop THEN {resources.uniformBuffer} ELSE {}]
        ELSE [resources    |-> r1,
              next         |-> next,
              destroyCount |-> count1,
              created      |-> {},
              buffers      |-> {},
              modules      |-> 0,
              views        |-> 0,
              destroyed    |-> {}]

SkyInit ==
    /\ skyResources = NoResources
    /\ skyNext = 1
    /\ skyRevision = [m \in SkyMaterials |-> 0]
    /\ skyDestroyCount = EmptyMap
    /\ skyBuffers = {}
    /\ lastSky = [op |-> "new"]
    /\ prevSky = [op |-> "new"]

\* render(passEncoder, material, camera)
SkyboxRender(material) ==
    LET r == SkyboxPass_getOrCreateResources(skyResources, skyNext, skyDestroyCount,
                                             material, skyRevision[material])
    IN  /\ r.next <= MaxSkyObjects + 1
        /\ skyResources' = r.resources
        /\ skyNext' = r.next
        /\ skyDestroyCount' = r.destroyCount
        /\ skyBuffers' = skyBuffers \cup r.buffers
        /\ lastSky' = [op        |-> "render",
                       material  |-> material,
                       revision  |-> skyRevision[material],
                       before    |-> skyResources,
                       created   |-> r.created,
                       modules   |-> r.modules,
                       views     |-> r.views,
                       destroyed |-> r.destroyed,
                       \* queue.writeBuffer(resources.uniformBuffer, 0, uniformData)
                       wrote     |-> r.resources.uniformBuffer,
                       \* setPipeline, setBindGroup(0, ...), draw(3)
                       pipeline  |-> r.resources.pipeline,
                       bindGroup |-> r.resources.bindGroup,
                       \* the buffer at binding 0 of that bind group
                       uniforms  |-> r.resources.bindGroupBuffer,
                       draw      |-> 3]
        /\ prevSky' = lastSky
        /\ UNCHANGED skyRevision

\* mutant: dispose destroys the buffer and keeps the record
SkyboxPass_dispose_keepsRecord(resources, destroyCount) ==
    IF resources # NoResources
    THEN [resources    |-> resources,
          destroyCount |-> DestroyBuffer(destroyCount, resources.uniformBuffer)]
    ELSE [resources |-> resources, destroyCount |-> destroyCount]

\* dispose(): if (this._resources) { uniformBuffer.destroy(); this._resources =
\* undefined }
SkyboxPass_dispose(resources, destroyCount) ==
    IF resources # NoResources
    THEN [resources    |-> NoResources,
          destroyCount |-> DestroyBuffer(destroyCount, resources.uniformBuffer)]
    ELSE [resources |-> resources, destroyCount |-> destroyCount]

\* dispose()
SkyboxDispose ==
    LET r == SkyboxPass_dispose(skyResources, skyDestroyCount)
    IN  /\ skyDestroyCount' = r.destroyCount
        /\ skyResources' = r.resources
        /\ lastSky' = [op |-> "dispose"]
        /\ prevSky' = lastSky
        /\ UNCHANGED <<skyNext, skyRevision, skyBuffers>>

\* the application swaps a texture of the material: bindingRevision++
SkyboxMaterialChange(material) ==
    /\ skyRevision[material] < MaxRevision
    /\ skyRevision' = [skyRevision EXCEPT ![material] = @ + 1]
    /\ UNCHANGED <<skyResources, skyNext, skyDestroyCount, skyBuffers, lastSky,
                   prevSky>>

skyRest == <<pcVars, rtVars, assetVars, frameVars, meshVars, graphVars>>

SkyNext ==
    \/ \E material \in SkyMaterials : SkyboxRender(material) /\ UNCHANGED skyRest
    \/ SkyboxDispose /\ UNCHANGED skyRest
    \/ \E material \in SkyMaterials : SkyboxMaterialChange(material) /\ UNCHANGED skyRest

----------------------------------------------------------------------------
(* RenderTargets *)

\* this._depthTexture?.destroy() / this._msaaTexture?.destroy()
DestroyTexture(live, texture) == live \ {texture}

\* mutant: the replacement is created first, the old texture destroyed after
RenderTargets_recreate_late(texture, next, live, log, kind) ==
    [texture |-> next,
     next    |-> next + 1,
     live    |-> DestroyTexture(live \cup {next}, texture),
     log     |-> log \o <<[op |-> "create", kind |-> kind, texture |-> next],
                          [op |-> "destroy", kind |-> kind, texture |-> texture]>>]

\* _createDepthTexture() and _createMSAATexture(): destroy the texture held
\* (if any, texture = 0 when the field is undefined), then create the new one
RenderTargets_recreate(texture, next, live, log, kind) ==
    [texture |-> next,
     next    |-> next + 1,
     live    |-> DestroyTexture(live, texture) \cup {next},
     log     |-> log
                 \o (IF texture # 0
                     THEN <<[op |-> "destroy", kind |-> kind, texture |-> texture]>>
                     ELSE <<>>)
                 \o <<[op |-> "create", kind |-> kind, texture |-> next]>>]

\* the two calls the constructor and the resize callback make
RenderTargets_recreateBoth(depth, msaa, next, live) ==
    LET d == RenderTargets_recreate(depth, next, live, <<>>, "depth")
        m == RenderTargets_recreate(msaa, d.next, d.live, d.log, "msaa")
    IN  [depth |-> d.texture, msaa |-> m.texture, next |-> m.next,
         live |-> m.live, log |-> m.log]

\* new RenderTargets(...): both textures created, the observer connected
RTInit ==
    LET r == RenderTargets_recreateBoth(0, 0, 1, {})
    IN  /\ depthTexture = r.depth
        /\ msaaTexture = r.msaa
        /\ texNext = r.next
        /\ liveTextures = r.live
        /\ observing = TRUE
        /\ lastTargets = [op |-> "new", log |-> r.log, before |-> {}]

\* mutant: render awaits between beginRenderPass and submit, so that event-loop
\* tasks run in the middle of a frame
EventLoopTurn_midFrame == TRUE

\* The ResizeObserver callback is an event-loop task: it runs only when no
\* script is on the stack.  Renderer.render is synchronous (no await between
\* beginRenderPass and queue.submit), so it is never on the stack then.
EventLoopTurn == pc = "idle"

\* the ResizeObserver callback
Resize ==
    LET r == RenderTargets_recreateBoth(depthTexture, msaaTexture, texNext,
                                        liveTextures)
    IN  /\ EventLoopTurn
        /\ observing
        /\ r.next <= MaxTextures + 1
        /\ depthTexture' = r.depth
        /\ msaaTexture' = r.msaa
        /\ texNext' = r.next
        /\ liveTextures' = r.live
        /\ lastTargets' = [op |-> "resize", log |-> r.log,
                           before |-> {depthTexture, msaaTexture}]
        /\ UNCHANGED observing

\* dispose(): called by the application, between frames
RenderTargetsDispose ==
    /\ pc = "idle"
    /\ observing' = FALSE
    /\ liveTextures' = DestroyTexture(DestroyTexture(liveTextures, depthTexture),
                                      msaaTexture)
    /\ lastTargets' = [op |-> "dispose",
                       log |-> <<[op |-> "destroy", kind |-> "depth",
                                  texture |-> depthTexture],
                                 [op |-> "destroy", kind |-> "msaa",
                                  texture |-> msaaTexture]>>,
                       before |-> {depthTexture, msaaTexture}]
    /\ UNCHANGED <<depthTexture, msaaTexture, texNext>>

\* beginRenderPass: views of the current msaa and depth textures are bound
RenderTargets_beginRenderPass(depth, msaa) ==
    [op |-> "beginRenderPass", msaa |-> msaa, depth |-> depth]

----------------------------------------------------------------------------
(* Matrix4 *)

\* A transformation is modelled along one axis: x -> s * x + t (a scale and a
\* translation; rotations are left out).  Matrix elements are 32-bit floats:
\* a magnitude above FloatMax is stored as a non-finite value (Infinity or
\* NaN), and arithmetic on a non-finite value stays non-finite.
NonFinite == FloatMax + 1

Times(a, b) ==
    IF a = NonFinite \/ b = NonFinite \/ a * b > FloatMax THEN NonFinite
    ELSE a * b

Plus(a, b) ==
    IF a = NonFinite \/ b = NonFinite \/ a + b > FloatMax THEN NonFinite
    ELSE a + b

\* new Matrix4()
Identity == [s |-> 1, t |-> 0]

\* mutant: the factors are multiplied in the other order
Matrix4_multiply_swapped(a, b) ==
    [s |-> Times(b.s, a.s), t |-> Plus(Times(b.s, a.t), b.t)]

\* a.multiply(b): first b, then a
Matrix4_multiply(a, b) ==
    [s |-> Times(a.s, b.s), t |-> Plus(Times(a.s, b.t), a.t)]

----------------------------------------------------------------------------
(* Materials, MeshResourceCache, MeshPass *)

\* bytes [0, 64) of every uniform buffer hold the MVP matrix
MVP_SIZE == 64

Meshes == 1..MaxMeshes

\* the camera is in one of two states and moves between frames
OtherView(v) == 3 - v

\* The material objects meshes are given: implementations of the Material
\* interface.  type, topology, size model Material.type, getPrimitiveTopology(),
\* getUniformBufferSize(); offset models getUniformDataOffset() (hasOffset:
\* whether the optional method is defined); writer says whether the optional
\* writeUniformData is defined; keepsBuffer whether getUniformDataBuffer is.
\* "shader_h1" is a ShaderMaterial (80 bytes by default, with its own scratch
\* buffer), "custom" and "plain" are application-defined materials, "texture"
\* is a material whose vertex data holds UV coordinates.  The size is the same
\* for all materials of one type.
MaterialTable ==
    << [type |-> <<"custom">>, topology |-> "triangle-list", size |-> 80,
        hasOffset |-> FALSE, offset |-> 0, writer |-> TRUE, keepsBuffer |-> FALSE],
       [type |-> <<"custom">>, topology |-> "line-list", size |-> 80,
        hasOffset |-> FALSE, offset |-> 0, writer |-> TRUE, keepsBuffer |-> FALSE],
       [type |-> <<"shader", "_", "h1">>, topology |-> "triangle-list", size |-> 80,
        hasOffset |-> TRUE, offset |-> 72, writer |-> TRUE, keepsBuffer |-> TRUE],
       [type |-> <<"shader", "_", "h1">>, topology |-> "triangle-list", size |-> 80,
        hasOffset |-> TRUE, offset |-> 48, writer |-> TRUE, keepsBuffer |-> TRUE],
       [type |-> <<"plain">>, topology |-> "triangle-list", size |-> 64,
        hasOffset |-> TRUE, offset |-> 64, writer |-> TRUE, keepsBuffer |-> FALSE],
       [type |-> <<"plain">>, topology |-> "triangle-list", size |-> 64,
        hasOffset |-> TRUE, offset |-> 48, writer |-> FALSE, keepsBuffer |-> FALSE],
       [type |-> <<"texture">>, topology |-> "triangle-list", size |-> 80,
        hasOffset |-> FALSE, offset |-> 0, writer |-> TRUE, keepsBuffer |-> FALSE] >>

MeshMaterials == 1..Len(MaterialTable)

\* byte values: 0 in a new buffer; otherwise a number that tells what wrote the
\* byte (the MVP matrix or the material), for which mesh, under which camera state
ZeroByte == 0

MvpByte(mesh, v) == 100 + 10 * mesh + v

MaterialByte(mesh, v) == 200 + 10 * mesh + v

\* new ArrayBuffer(size), and the initial contents of a GPU buffer
Zeros(size) == [i \in 1..size |-> ZeroByte]

\* mvpMatrix.data: 16 floats = 64 bytes of projection x view x mesh.worldMatrix
MvpData(mesh, v) == [i \in 1..MVP_SIZE |-> MvpByte(mesh, v)]

\* queue.writeBuffer(buffer, bufferOffset, data, dataOffset, size): byte b of the
\* buffer, bufferOffset <= b < bufferOffset + size, becomes byte
\* dataOffset + (b - bufferOffset) of data (byte b is element b + 1)
WriteBuffer(buffer, bufferOffset, data, dataOffset, size) ==
    [i \in 1..Len(buffer) |->
        IF bufferOffset < i /\ i <= bufferOffset + size
        THEN data[i - bufferOffset + dataOffset]
        ELSE buffer[i]]

\* mutant: the material leaves a view alone that already holds data of a draw
WriteUniformData_keepsScratch(data, offset, size, mesh, v) ==
    IF \E i \in 1..Len(data) : data[i] # ZeroByte
    THEN data
    ELSE [i \in 1..Len(data) |->
             IF offset < i /\ i <= size THEN MaterialByte(mesh, v) ELSE data[i]]

\* material.writeUniformData(dataView, offset, context) of a material that keeps
\* the contract: it writes bytes [offset, size) of the view it is handed
WriteUniformData(data, offset, size, mesh, v) ==
    [i \in 1..Len(data) |->
        IF offset < i /\ i <= size THEN MaterialByte(mesh, v) ELSE data[i]]

\* mutant: resources are reused whatever pipeline they were built against
MeshResourceCache_getOrCreate_stale(resources, data, next, mesh, pipeline, size) ==
    IF resources[mesh] # NoResources
    THEN [resources |-> resources, data |-> data, next |-> next, rebuilt |-> FALSE]
    ELSE LET buffer == <<mesh, next[mesh]>>
         IN  [resources |-> [resources EXCEPT ![mesh] =
                                [pipeline |-> pipeline, uniformBuffer |-> buffer]],
              data      |-> [b \in DOMAIN data \cup {buffer} |->
                                IF b = buffer THEN Zeros(size) ELSE data[b]],
              next      |-> [next EXCEPT ![mesh] = @ + 1],
              rebuilt   |-> TRUE]

\* MeshResourceCache.getOrCreate(mesh, pipeline): the record cached for the mesh
\* if it was built against this pipeline; otherwise the old record is disposed
\* and a new one built, its uniform buffer sized getUniformBufferSize().  The
\* n-th uniform buffer created for a mesh is the object <<mesh, n>>.
MeshResourceCache_getOrCreate(resources, data, next, mesh, pipeline, size) ==
    IF resources[mesh] # NoResources /\ resources[mesh].pipeline = pipeline
    THEN [resources |-> resources, data |-> data, next |-> next, rebuilt |-> FALSE]
    ELSE LET kept   == IF resources[mesh] # NoResources
                       THEN DOMAIN data \ {resources[mesh].uniformBuffer}
                       ELSE DOMAIN data
             buffer == <<mesh, next[mesh]>>
         IN  [resources |-> [resources EXCEPT ![mesh] =
                                [pipeline |-> pipeline, uniformBuffer |-> buffer]],
              data      |-> [b \in kept \cup {buffer} |->
                                IF b = buffer THEN Zeros(size) ELSE data[b]],
              next      |-> [next EXCEPT ![mesh] = @ + 1],
              rebuilt   |-> TRUE]

\* const uniformDataOffset = material.getUniformDataOffset?.() ?? 64
MeshPass_uniformDataOffset(material) ==
    IF material.hasOffset THEN material.offset ELSE MVP_SIZE

\* mutant: the whole scratch buffer is uploaded from byte 0
MeshPass_customUpload_whole(buffer, uniformData, material) ==
    [data |-> WriteBuffer(buffer, 0, uniformData, 0, material.size),
     log  |-> <<[op |-> "writeBuffer", offset |-> 0, dataOffset |-> 0,
                 size |-> material.size]>>]

\* const customDataSize = size - offset; if (customDataSize > 0)
\*   queue.writeBuffer(uniformBuffer, offset, uniformData, offset, customDataSize)
MeshPass_customUpload(buffer, uniformData, material) ==
    LET uniformDataOffset == MeshPass_uniformDataOffset(material)
        customDataSize    == material.size - uniformDataOffset
    IN  IF customDataSize > 0
        THEN [data |-> WriteBuffer(buffer, uniformDataOffset, uniformData,
                                   uniformDataOffset, customDataSize),
              log  |-> <<[op |-> "writeBuffer", offset |-> uniformDataOffset,
                          dataOffset |-> uniformDataOffset,
                          size |-> customDataSize]>>]
        ELSE [data |-> buffer, log |-> <<>>]

\* if (material.writeUniformData) { ... if (uniformDataOffset < 64) throw ... }
MeshPass_rejects(material) ==
    material.writer /\ MeshPass_uniformDataOffset(material) < MVP_SIZE

\* the geometry of the meshes: mesh.vertexCount, mesh.indexCount and whether
\* geometry.uvs is defined (a BoxGeometry, which has an index buffer and no
\* uvs; a single triangle of the application with uvs and without indices)
Geometry(mesh) ==
    IF mesh % 2 = 1 THEN [vertexCount |-> 24, indexCount |-> 36, uvs |-> FALSE]
    ELSE [vertexCount |-> 3, indexCount |-> 0, uvs |-> TRUE]

\* the materials of type "texture"
TextureMaterials == {i \in MeshMaterials : MaterialTable[i].type = <<"texture">>}

\* mesh.getInterleavedVertices(): case "texture": if (!uvs) throw
Mesh_getInterleavedVertices_throws(mesh, material) ==
    material.type = <<"texture">> /\ ~Geometry(mesh).uvs

\* resources.indexCount of the record the cache holds for the mesh: the number
\* of indices of the mesh's geometry
ResourceIndexCount(mesh) == Geometry(mesh).indexCount

\* if (resources.indexCount > 0) drawIndexed(resources.indexCount)
\* else draw(mesh.vertexCount)
MeshPass_drawCommand(mesh) ==
    IF ResourceIndexCount(mesh) > 0
    THEN [call |-> "drawIndexed", count |-> ResourceIndexCount(mesh)]
    ELSE [call |-> "draw", count |-> Geometry(mesh).vertexCount]

\* camera.projectionMatrix and camera.viewMatrix in camera state v
Camera_projectionMatrix == [s |-> 2, t |-> 0]

Camera_viewMatrix(v) == [s |-> 1, t |-> v]

\* mutant: the factors are multiplied in the reverse order
MeshPass_mvpMatrix_reversed(v, world) ==
    Matrix4_multiply(Matrix4_multiply(world, Camera_viewMatrix(v)),
                     Camera_projectionMatrix)

\* camera.projectionMatrix.multiply(camera.viewMatrix).multiply(mesh.worldMatrix)
MeshPass_mvpMatrix(v, world) ==
    Matrix4_multiply(Matrix4_multiply(Camera_projectionMatrix,
                                      Camera_viewMatrix(v)),
                     world)

\* mutant: the draw is recorded before the uniform buffer is written
MeshPass_commands_drawFirst(writes, draw) == draw \o writes

\* the calls of one iteration in program order: the uniform writes of lines
\* 40-81, then the commands of lines 84-101
MeshPass_commands(writes, draw) == writes \o draw

\* one iteration of the loop of MeshPass.render, for `mesh` drawn under camera
\* state v, with mesh.worldMatrix = world and options.lights = lights (handed to the material in its render
\* context)
MeshPass_renderMesh(mesh, materialId, v, world, lights, cache, nextP, resources, data, nextB, scr) ==
    LET material == MaterialTable[materialId]
        p        == PipelineCache_getOrCreate(cache, nextP, material)
        r        == MeshResourceCache_getOrCreate(resources, data, nextB, mesh,
                                                  p.pipeline, material.size)
        \* building a record interleaves the mesh's vertex data, which throws
        \* for a texture material on a geometry without uvs
        noVertex == r.rebuilt /\ Mesh_getInterleavedVertices_throws(mesh, material)
        ubuf     == r.resources[mesh].uniformBuffer
        \* queue.writeBuffer(resources.uniformBuffer, 0, mvpMatrix.data)
        data1    == WriteBuffer(r.data[ubuf], 0, MvpData(mesh, v), 0, MVP_SIZE)
        log1     == <<[op |-> "writeBuffer", offset |-> 0, dataOffset |-> 0,
                       size |-> MVP_SIZE, mvp |-> MeshPass_mvpMatrix(v, world)]>>
        rejects  == MeshPass_rejects(material)
        \* getUniformDataBuffer() of the material, or a new ArrayBuffer
        uniform0 == IF material.keepsBuffer THEN scr[materialId]
                    ELSE Zeros(material.size)
        uniform1 == WriteUniformData(uniform0, MeshPass_uniformDataOffset(material),
                                     material.size, mesh, v)
        up       == MeshPass_customUpload(data1, uniform1, material)
        wrote    == material.writer /\ ~rejects
        \* setPipeline(pipeline), setBindGroup, setVertexBuffer, draw: `builtFor`
        \* is the pipeline the returned resources were built against, `before`
        \* the record the cache held for the mesh when the iteration began
        draw     == <<[op |-> "draw", pipeline |-> p.pipeline,
                       builtFor |-> r.resources[mesh].pipeline,
                       rebuilt |-> r.rebuilt, before |-> resources[mesh],
                       call |-> MeshPass_drawCommand(mesh).call,
                       count |-> MeshPass_drawCommand(mesh).count]>>
        data2    == IF wrote THEN up.data ELSE data1
        log2     == IF rejects THEN log1 \o <<[op |-> "throw"]>>
                    ELSE IF wrote
                    THEN MeshPass_commands(
                             log1 \o <<[op |-> "writeUniformData",
                                        offset |-> MeshPass_uniformDataOffset(material),
                                        lights |-> lights]>>
                                  \o up.log,
                             draw)
                    ELSE MeshPass_commands(log1, draw)
    IN  IF noVertex
        THEN [cache     |-> p.cache,
              nextP     |-> p.next,
              resources |-> resources,
              data      |-> data,
              nextB     |-> nextB,
              scratch   |-> scr,
              threw     |-> TRUE,
              log       |-> <<[mesh |-> mesh, materialId |-> materialId,
                               buffer |-> <<mesh, 0>>,
                               do |-> [op |-> "throwUV"]]>>]
        ELSE [cache     |-> p.cache,
              nextP     |-> p.next,
              resources |-> r.resources,
              data      |-> [r.data EXCEPT ![ubuf] = data2],
              nextB     |-> r.next,
              scratch   |-> IF wrote /\ material.keepsBuffer
                            THEN [scr EXCEPT ![materialId] = uniform1] ELSE scr,
              threw     |-> rejects,
              log       |-> [i \in 1..Len(log2) |->
                                [mesh |-> mesh, materialId |-> materialId,
                                 buffer |-> ubuf, do |-> log2[i]]]]

MeshInit ==
    /\ meshMaterial = [m \in Meshes |-> 1]
    /\ meshResources = [m \in Meshes |-> NoResources]
    /\ bufferData = EmptyMap
    /\ bufNext = [m \in Meshes |-> 1]
    /\ swaps = 0
    /\ scratch = [i \in {j \in MeshMaterials : MaterialTable[j].keepsBuffer} |->
                     Zeros(MaterialTable[i].size)]

\* the application assigns mesh.material, between frames (the record of the
\* frame rendered before is dropped: it described the scene as it was)
SetMaterial(mesh, materialId) ==
    /\ pc = "idle"
    /\ swaps < MaxSwaps
    /\ swaps' = swaps + 1
    /\ meshMaterial[mesh] # materialId
    /\ meshMaterial' = [meshMaterial EXCEPT ![mesh] = materialId]
    /\ frameLog' = <<>>
    /\ frameMeshes' = <<>>
    /\ outcome' = "none"
    /\ UNCHANGED <<meshResources, bufferData, bufNext, scratch>>
    /\ UNCHANGED <<pc, view, meshIdx, bound>>

----------------------------------------------------------------------------
(* Object3D and Scene: the scene graph *)

\* parent === null
Null == 0

\* the objects of the application: the meshes, the scene, the camera and a
\* light (every one of them an Object3D)
SceneNode == MaxMeshes + 1

CameraNode == MaxMeshes + 2

LightNode == MaxMeshes + 3

\* object instanceof Light
Lights == {LightNode}

Nodes == 1..(MaxMeshes + 3)

\* this.children.indexOf(child): the first index, 0 for -1
IndexOf(list, x) ==
    IF \E i \in 1..Len(list) : list[i] = x
    THEN CHOOSE i \in 1..Len(list) :
            list[i] = x /\ \A j \in 1..(i - 1) : list[j] # x
    ELSE 0

\* this.children.splice(index, 1)
Splice(list, index) ==
    [i \in 1..(Len(list) - 1) |-> IF i < index THEN list[i] ELSE list[i + 1]]

\* mutant: the child is taken out of the list but keeps its parent reference
Object3D_remove_keepsParent(g, self, child) ==
    LET index == IndexOf(g.children[self], child)
    IN  IF index # 0
        THEN [g EXCEPT !.children[self] = Splice(@, index)]
        ELSE g

\* mutant: no test of the index: splice(-1, 1) takes the last child out, and
\* the parent reference of the argument is cleared
Object3D_remove_unguarded(g, self, child) ==
    LET index == IndexOf(g.children[self], child)
        list  == g.children[self]
    IN  [g EXCEPT !.parent[child] = Null,
                  !.children[self] =
                      IF index # 0 THEN Splice(list, index)
                      ELSE IF list # <<>> THEN SubSeq(list, 1, Len(list) - 1)
                      ELSE list]

\* remove(child) on the graph g = [parent, children]
Object3D_remove(g, self, child) ==
    LET index == IndexOf(g.children[self], child)
    IN  IF index # 0
        THEN [g EXCEPT !.parent[child] = Null,
                       !.children[self] = Splice(@, index)]
        ELSE g

\* mutant: the child is not taken from its previous parent
Object3D_add_noDetach(g, self, child) ==
    [g EXCEPT !.parent[child] = self,
              !.children[self] = Append(@, child)]

\* mutant: a node is not added to itself nor to one of its children
Object3D_add_rejectsCycles(g, self, child) ==
    IF child = self \/ g.parent[self] = child THEN g
    ELSE LET g1 == IF g.parent[child] # Null
                   THEN Object3D_remove(g, g.parent[child], child)
                   ELSE g
         IN  [g1 EXCEPT !.parent[child] = self,
                        !.children[self] = Append(@, child)]

\* add(child) on the graph g = [parent, children]
Object3D_add(g, self, child) ==
    LET g1 == IF g.parent[child] # Null
              THEN Object3D_remove(g, g.parent[child], child)
              ELSE g
    IN  [g1 EXCEPT !.parent[child] = self,
                   !.children[self] = Append(@, child)]

\* the graph held by the program
Graph == [parent |-> parent, children |-> children]

\* self.add(child)
Add(self, child) ==
    LET g == Object3D_add(Graph, self, child)
    IN  /\ parent' = g.parent
        /\ children' = g.children
        /\ lastGraph' = [op |-> "add",
                         how |-> IF parent[child] = Null THEN "fresh"
                                 ELSE IF parent[child] = self THEN "readd"
                                 ELSE "moved"]
        /\ UNCHANGED <<position, visible, localMatrix, worldMatrix, sceneSkybox,
                       lastRefresh>>

\* self.remove(child)
Remove(self, child) ==
    LET g == Object3D_remove(Graph, self, child)
    IN  /\ parent' = g.parent
        /\ children' = g.children
        /\ lastGraph' = [op |-> "remove",
                         how |-> IF IndexOf(children[self], child) # 0
                                 THEN "found"
                                 ELSE IF parent[child] # Null THEN "elsewhere"
                                 ELSE "absent"]
        /\ UNCHANGED <<position, visible, localMatrix, worldMatrix, sceneSkybox,
                       lastRefresh>>

graphRest == <<pcVars, skyVars, rtVars, assetVars, frameVars, meshVars>>

\* the objects the application reparents: all but the light, which stays where
\* the scene was built with it
Movable == Nodes \ Lights

\* any sequence of add and remove calls
GraphNext ==
    \/ \E self \in Movable : \E child \in Movable :
          Add(self, child) /\ UNCHANGED edits /\ UNCHANGED graphRest
    \/ \E self \in Movable : \E child \in Movable :
          Remove(self, child) /\ UNCHANGED edits /\ UNCHANGED graphRest

----------------------------------------------------------------------------
(* Object3D: matrices, refresh and traversal *)

\* the positions the application gives its objects
Positions == {0, 5, 10}

\* Object3D.scale of every node: set when the scene is built, not changed later
Scale == [n \in Nodes |-> IF n = 1 THEN 2 ELSE 1]

\* updateMatrix(): translation x rotation x scale
Object3D_updateMatrix(pos, scale) ==
    Matrix4_multiply([s |-> 1, t |-> pos], [s |-> scale, t |-> 0])

RECURSIVE Object3D_updateWorldMatrix(_, _, _, _, _, _)
RECURSIVE Object3D_updateChildren(_, _, _, _, _)

\* the loop `for (const child of this.children) child.updateWorldMatrix(false,
\* true)`, from the i-th child on
Object3D_updateChildren(list, i, g, m, depth) ==
    IF i > Len(list) THEN m
    ELSE LET m1 == Object3D_updateWorldMatrix(list[i], FALSE, TRUE, g, m, depth + 1)
         IN  IF m1.overflow THEN m1
             ELSE Object3D_updateChildren(list, i + 1, g, m1, depth)

\* mutant: the node is refreshed before its ancestors are
Object3D_updateWorldMatrix_selfFirst(self, updateParents, updateChildren, g, m, depth) ==
    IF depth > MaxStack THEN [m EXCEPT !.overflow = TRUE]
    ELSE
    LET local == Object3D_updateMatrix(g.position[self], Scale[self])
        world == IF g.parent[self] = Null THEN local
                 ELSE Matrix4_multiply(m.world[g.parent[self]], local)
        m1 == [m EXCEPT !.local[self] = local,
                        !.world[self] = world,
                        !.order = Append(@, self)]
        m2 == IF updateParents /\ g.parent[self] # Null
              THEN Object3D_updateWorldMatrix(g.parent[self], TRUE, FALSE, g, m1,
                                              depth + 1)
              ELSE m1
    IN  IF m2.overflow THEN m2
        ELSE IF updateChildren
        THEN Object3D_updateChildren(g.children[self], 1, g, m2, depth)
        ELSE m2

\* mutant: the children are refreshed whatever updateChildren says
Object3D_updateWorldMatrix_alwaysChildren(self, updateParents, updateChildren, g, m, depth) ==
    IF depth > MaxStack THEN [m EXCEPT !.overflow = TRUE]
    ELSE
    LET m1 == IF updateParents /\ g.parent[self] # Null
              THEN Object3D_updateWorldMatrix(g.parent[self], TRUE, FALSE, g, m,
                                              depth + 1)
              ELSE m
        local == Object3D_updateMatrix(g.position[self], Scale[self])
        world == IF g.parent[self] = Null THEN local
                 ELSE Matrix4_multiply(m1.world[g.parent[self]], local)
        m2 == [m1 EXCEPT !.local[self] = local,
                         !.world[self] = world,
                         !.order = Append(@, self)]
    IN  IF m1.overflow THEN m1
        ELSE Object3D_updateChildren(g.children[self], 1, g, m2, depth)

\* self.updateWorldMatrix(updateParents, updateChildren) as the depth-th call on
\* the stack, on the graph g with positions g.position; m = [local, world,
\* order, overflow] holds the matrices, the nodes refreshed so far in order, and
\* whether the call stack was exhausted (the engine throws a RangeError, which
\* nothing catches)
Object3D_updateWorldMatrix(self, updateParents, updateChildren, g, m, depth) ==
    IF depth > MaxStack THEN [m EXCEPT !.overflow = TRUE]
    ELSE
    LET m1 == IF updateParents /\ g.parent[self] # Null
              THEN Object3D_updateWorldMatrix(g.parent[self], TRUE, FALSE, g, m,
                                              depth + 1)
              ELSE m
        local == Object3D_updateMatrix(g.position[self], Scale[self])
        world == IF g.parent[self] = Null THEN local
                 ELSE Matrix4_multiply(m1.world[g.parent[self]], local)
        m2 == [m1 EXCEPT !.local[self] = local,
                         !.world[self] = world,
                         !.order = Append(@, self)]
    IN  IF m1.overflow THEN m1
        ELSE IF updateChildren
        THEN Object3D_updateChildren(g.children[self], 1, g, m2, depth)
        ELSE m2

RECURSIVE Object3D_traverse(_, _, _, _)
RECURSIVE Object3D_traverseChildren(_, _, _, _, _)

\* mutant: the children are visited from the last to the first
Object3D_traverseChildren_reversed(list, i, g, v, depth) ==
    IF i > Len(list) THEN v
    ELSE LET v1 == Object3D_traverse(list[Len(list) + 1 - i], g, v, depth + 1)
         IN  IF v1.overflow THEN v1
             ELSE Object3D_traverseChildren(list, i + 1, g, v1, depth)

\* the loop `for (const child of this.children) child.traverse(callback)`,
\* from the i-th child on
Object3D_traverseChildren(list, i, g, v, depth) ==
    IF i > Len(list) THEN v
    ELSE LET v1 == Object3D_traverse(list[i], g, v, depth + 1)
         IN  IF v1.overflow THEN v1
             ELSE Object3D_traverseChildren(list, i + 1, g, v1, depth)

\* mutant: the callback is called on a node after its children were visited
Object3D_traverse_postOrder(self, g, v, depth) ==
    IF depth > MaxStack THEN [v EXCEPT !.overflow = TRUE]
    ELSE LET v1 == Object3D_traverseChildren(g.children[self], 1, g, v, depth)
         IN  IF v1.overflow THEN v1
             ELSE [v1 EXCEPT !.visited = Append(@, self)]

\* self.traverse(callback): v = [visited, overflow], the nodes the callback was
\* called on, in order
Object3D_traverse(self, g, v, depth) ==
    IF depth > MaxStack THEN [v EXCEPT !.overflow = TRUE]
    ELSE Object3D_traverseChildren(g.children[self], 1, g,
                                   [v EXCEPT !.visited = Append(@, self)], depth)

\* mutant: a mesh under an invisible object is not collected
Renderer_collects_inherited(object, g, vis) ==
    /\ object \in Meshes
    /\ vis[object]
    /\ (g.parent[object] # Null => vis[g.parent[object]])

\* object instanceof Mesh && object.visible
Renderer_collects(object, g, vis) == object \in Meshes /\ vis[object]

\* the `meshes` array the traversal callback of render fills
Renderer_collectMeshes(visited, g, vis) ==
    SelectSeq(visited, LAMBDA object : Renderer_collects(object, g, vis))

\* else if (object instanceof Light)
Renderer_collectsLight(object, g, vis) ==
    ~Renderer_collects(object, g, vis) /\ object \in Lights

\* the `lights` array the traversal callback of render fills
Renderer_collectLights(visited, g, vis) ==
    SelectSeq(visited, LAMBDA object : Renderer_collectsLight(object, g, vis))

\* the scene as built by the application before the first frame: the meshes
\* form a chain under the scene (mesh k + 1 is the parent of mesh k, the scene
\* the parent of the last mesh), the camera follows mesh 1 as its child, the
\* light is the second child of the scene; the positions are set, no matrix has
\* been refreshed yet
GraphInit ==
    /\ parent = [n \in Nodes |-> IF n = SceneNode THEN Null
                                 ELSE IF n = CameraNode THEN 1
                                 ELSE IF n = LightNode THEN SceneNode
                                 ELSE n + 1]
    /\ children = [n \in Nodes |-> IF n \in {CameraNode, LightNode} THEN <<>>
                                   ELSE IF n = 1 THEN <<CameraNode>>
                                   ELSE IF n = SceneNode
                                   THEN <<MaxMeshes, LightNode>>
                                   ELSE <<n - 1>>]
    /\ position = [n \in Nodes |-> IF n = MaxMeshes THEN 10
                                   ELSE IF n \in Meshes THEN 5
                                   ELSE 0]
    /\ visible = [n \in Nodes |-> TRUE]
    /\ localMatrix = [n \in Nodes |-> Identity]
    /\ worldMatrix = [n \in Nodes |-> Identity]
    /\ sceneSkybox = 0
    /\ lastGraph = [op |-> "new"]
    /\ lastRefresh = [op |-> "new"]
    /\ edits = 0

----------------------------------------------------------------------------
(* Renderer.render *)

FrameInit ==
    /\ pc = "idle"
    /\ view = 1
    /\ frameMeshes = <<>>
    /\ meshIdx = 1
    /\ bound = [none |-> TRUE]
    /\ frameLog = <<>>
    /\ outcome = "none"

\* render(scene, camera), lines 84-95: scene.updateMatrixWorld(), then
\* camera.updateWorldMatrix(false, false), then the traversal that collects the
\* visible meshes.  A RangeError of the recursion ends the call.
Renderer_prepare(g, local, world, vis) ==
    LET m0 == [local |-> local, world |-> world, order |-> <<>>,
               overflow |-> FALSE]
        m1 == Object3D_updateWorldMatrix(SceneNode, FALSE, TRUE, g, m0, 1)
        m2 == IF m1.overflow THEN m1
              ELSE Object3D_updateWorldMatrix(CameraNode, FALSE, FALSE, g,
                                              [m1 EXCEPT !.order = <<>>], 1)
        v  == IF m2.overflow THEN [visited |-> <<>>, overflow |-> TRUE]
              ELSE Object3D_traverse(SceneNode, g,
                                     [visited |-> <<>>, overflow |-> FALSE], 1)
    IN  [local       |-> m2.local,
         world       |-> m2.world,
         sceneOrder  |-> m1.order,
         cameraOrder |-> IF m1.overflow THEN <<>> ELSE m2.order,
         visited     |-> v.visited,
         meshes      |-> Renderer_collectMeshes(v.visited, g, vis),
         lights      |-> Renderer_collectLights(v.visited, g, vis),
         refreshed   |-> ~m1.overflow,
         overflow    |-> v.overflow]

\* mutant: the skybox pass is skipped
Renderer_passOpening_noSkybox(skybox) ==
    <<[mesh |-> 0, do |-> [op |-> "beginRenderPass"]]>>

\* the commands of lines 97-105: beginRenderPass and, if (scene.skyboxMaterial),
\* the skybox pass, which ends with passEncoder.draw(3)
Renderer_passOpening(skybox) ==
    IF skybox # 0
    THEN <<[mesh |-> 0, do |-> [op |-> "beginRenderPass"]],
           [mesh |-> 0, do |-> [op |-> "skyboxDraw", vertices |-> 3]]>>
    ELSE <<[mesh |-> 0, do |-> [op |-> "beginRenderPass"]]>>

\* mutant: the command buffer is submitted before the pass is ended
Renderer_passClosing_submitFirst ==
    <<[mesh |-> 0, do |-> [op |-> "submit"]], [mesh |-> 0, do |-> [op |-> "end"]]>>

\* passEncoder.end(); queue.submit([commandEncoder.finish()])
Renderer_passClosing ==
    <<[mesh |-> 0, do |-> [op |-> "end"]], [mesh |-> 0, do |-> [op |-> "submit"]]>>

\* mutant: the pass is ended and the command buffer submitted even when the
\* mesh pass throws (as a finally block would)
Renderer_unwinds_submits == Renderer_passClosing

\* the commands render records while an exception of the mesh pass leaves it:
\* none, render has no try / finally around the passes, so passEncoder.end()
\* and queue.submit are not reached
Renderer_unwinds == <<>>

\* render(scene, camera) up to the mesh pass: refresh, traversal,
\* beginRenderPass and, if the scene has a skybox material, the skybox pass.
\* The camera has moved since the frame before.
RenderBegin ==
    LET g == [parent |-> parent, children |-> children, position |-> position]
        r == Renderer_prepare(g, localMatrix, worldMatrix, visible)
    IN  /\ pc = "idle"
        /\ view' = OtherView(view)
        /\ localMatrix' = r.local
        /\ worldMatrix' = r.world
        /\ lastRefresh' = [op |-> "render", sceneOrder |-> r.sceneOrder,
                           cameraOrder |-> r.cameraOrder, visited |-> r.visited,
                           lights |-> r.lights,
                           refreshed |-> r.refreshed, overflow |-> r.overflow]
        /\ meshIdx' = 1
        /\ IF r.overflow
           THEN /\ pc' = "idle"
                /\ outcome' = "RangeError"
                /\ frameMeshes' = <<>>
                /\ frameLog' = <<>>
                /\ UNCHANGED bound
                /\ UNCHANGED skyVars
           ELSE /\ pc' = "recording"
                /\ outcome' = "running"
                /\ frameMeshes' = r.meshes
                /\ bound' = RenderTargets_beginRenderPass(depthTexture, msaaTexture)
                /\ frameLog' = Renderer_passOpening(sceneSkybox)
                /\ IF sceneSkybox # 0
                   THEN SkyboxRender(sceneSkybox)
                   ELSE UNCHANGED skyVars
        /\ UNCHANGED <<parent, children, position, visible, sceneSkybox,
                       lastGraph, edits>>

\* the mesh pass processes the next mesh; an exception ends the render call
MeshStep ==
    /\ pc = "recording"
    /\ meshIdx <= Len(frameMeshes)
    /\ LET mesh == frameMeshes[meshIdx]
           r    == MeshPass_renderMesh(mesh, meshMaterial[mesh], view,
                                       worldMatrix[mesh], lastRefresh.lights,
                                       pipelineCache, nextPipeline, meshResources,
                                       bufferData, bufNext, scratch)
       IN  /\ r.nextP <= MaxPipelines + 1
           /\ \A m \in Meshes : r.nextB[m] <= MaxBuffers + 1
           /\ pipelineCache' = r.cache
           /\ nextPipeline' = r.nextP
           /\ meshResources' = r.resources
           /\ bufferData' = r.data
           /\ bufNext' = r.nextB
           /\ scratch' = r.scratch
           /\ frameLog' = frameLog \o r.log
                              \o (IF r.threw THEN Renderer_unwinds ELSE <<>>)
           /\ pc' = IF r.threw THEN "idle" ELSE "recording"
           /\ outcome' = IF r.threw THEN "threw" ELSE outcome
           /\ meshIdx' = IF r.threw THEN meshIdx ELSE meshIdx + 1
    /\ UNCHANGED <<view, frameMeshes, bound, meshMaterial, swaps>>
    /\ UNCHANGED <<built, returned, epoch, lastCall>>

\* passEncoder.end(); queue.submit([commandEncoder.finish()])
RenderEnd ==
    /\ pc = "recording"
    /\ meshIdx > Len(frameMeshes)
    /\ pc' = "idle"
    /\ outcome' = "submitted"
    /\ frameLog' = frameLog \o Renderer_passClosing
    /\ UNCHANGED <<view, frameMeshes, meshIdx, bound>>

\* frames of a scene whose meshes are all visible and whose mesh materials the
\* application changes, among the materials whose vertex data every geometry
\* can supply
MeshNext ==
    \/ \E mesh \in Meshes : \E materialId \in MeshMaterials \ TextureMaterials :
          SetMaterial(mesh, materialId)
          /\ UNCHANGED <<pcVars, skyVars, rtVars, assetVars, graphVars>>
    \/ RenderBegin /\ UNCHANGED <<pcVars, rtVars, assetVars, meshVars>>
    \/ MeshStep /\ UNCHANGED <<skyVars, rtVars, assetVars, graphVars>>
    \/ RenderEnd
          /\ UNCHANGED <<pcVars, skyVars, rtVars, assetVars, meshVars, graphVars>>

\* the application sets object.visible, between frames
SetVisible(object) ==
    /\ pc = "idle"
    /\ visible' = [visible EXCEPT ![object] = ~@]
    /\ UNCHANGED <<parent, children, position, localMatrix, worldMatrix,
                   sceneSkybox, lastGraph, lastRefresh>>

\* frames interleaved with resize notifications and dispose, of a scene whose
\* meshes the application shows and hides
TargetsNext ==
    \/ Resize
          /\ UNCHANGED <<pcVars, skyVars, frameVars, meshVars, graphVars, assetVars>>
    \/ RenderTargetsDispose
          /\ UNCHANGED <<pcVars, skyVars, frameVars, meshVars, graphVars, assetVars>>
    \/ \E mesh \in Meshes :
          SetVisible(mesh)
          /\ UNCHANGED edits
          /\ UNCHANGED <<pcVars, skyVars, rtVars, assetVars, frameVars, meshVars>>
    \/ RenderBegin /\ UNCHANGED <<pcVars, rtVars, assetVars, meshVars>>
    \/ MeshStep /\ UNCHANGED <<skyVars, rtVars, assetVars, graphVars>>
    \/ RenderEnd
          /\ UNCHANGED <<pcVars, skyVars, rtVars, assetVars, meshVars, graphVars>>

\* the application assigns object.position, between frames
SetPosition(object, pos) ==
    /\ pc = "idle"
    /\ position[object] # pos
    /\ position' = [position EXCEPT ![object] = pos]
    /\ UNCHANGED <<parent, children, visible, localMatrix, worldMatrix,
                   sceneSkybox, lastGraph, lastRefresh>>

\* the application assigns scene.skyboxMaterial (0: undefined), between frames
SetSkybox(material) ==
    /\ pc = "idle"
    /\ sceneSkybox # material
    /\ sceneSkybox' = material
    /\ UNCHANGED <<parent, children, position, visible, localMatrix,
                   worldMatrix, lastGraph, lastRefresh>>

\* raycaster.setFromCamera(coords, camera), between frames: its first step is
\* camera.updateWorldMatrix(true, false) (the record of the call notes how many
\* edits the scene had seen)
SetFromCamera ==
    LET g == [parent |-> parent, children |-> children, position |-> position]
        r == Object3D_updateWorldMatrix(CameraNode, TRUE, FALSE, g,
                                        [local |-> localMatrix,
                                         world |-> worldMatrix,
                                         order |-> <<>>, overflow |-> FALSE], 1)
    IN  /\ pc = "idle"
        /\ localMatrix' = r.local
        /\ worldMatrix' = r.world
        /\ lastRefresh' = [op |-> "setFromCamera", order |-> r.order,
                           overflow |-> r.overflow, edits |-> edits]
        /\ UNCHANGED <<parent, children, position, visible, sceneSkybox,
                       lastGraph, edits>>

\* the application calls object.updateWorldMatrix(updateParents,
\* updateChildren), between frames
UpdateWorldMatrix(object, updateParents, updateChildren) ==
    LET g == [parent |-> parent, children |-> children, position |-> position]
        r == Object3D_updateWorldMatrix(object, updateParents, updateChildren, g,
                                        [local |-> localMatrix,
                                         world |-> worldMatrix,
                                         order |-> <<>>, overflow |-> FALSE], 1)
    IN  /\ pc = "idle"
        /\ localMatrix' = r.local
        /\ worldMatrix' = r.world
        /\ lastRefresh' = [op |-> "updateWorldMatrix", object |-> object,
                           updateParents |-> updateParents,
                           updateChildren |-> updateChildren,
                           order |-> r.order, overflow |-> r.overflow,
                           edits |-> edits]
        /\ UNCHANGED <<parent, children, position, visible, sceneSkybox,
                       lastGraph, edits>>

\* an edit of the scene between two frames; the record of the frame rendered
\* before is dropped (it described the scene as it was)
SceneEdit ==
    /\ pc = "idle"
    /\ edits < MaxEdits
    /\ edits' = edits + 1
    /\ frameLog' = <<>>
    /\ frameMeshes' = <<>>
    /\ outcome' = "none"
    /\ UNCHANGED <<pc, view, meshIdx, bound>>
    /\ UNCHANGED <<pcVars, skyVars, rtVars, assetVars, meshVars>>

\* frames of a scene the application edits: reparenting, moving, hiding, and
\* setting the skybox
SceneNext ==
    \/ \E self \in Nodes : \E child \in Nodes : SceneEdit /\ Add(self, child)
    \/ \E self \in Nodes : \E child \in Nodes : SceneEdit /\ Remove(self, child)
    \/ \E object \in Nodes : \E pos \in Positions :
          SceneEdit /\ SetPosition(object, pos)
    \/ \E object \in Nodes : SceneEdit /\ SetVisible(object)
    \/ \E material \in {0} \cup SkyMaterials : SceneEdit /\ SetSkybox(material)
    \/ SetFromCamera
          /\ UNCHANGED <<pcVars, skyVars, rtVars, assetVars, frameVars, meshVars>>
    \/ RenderBegin /\ UNCHANGED <<pcVars, rtVars, assetVars, meshVars>>
    \/ MeshStep /\ UNCHANGED <<skyVars, rtVars, assetVars, graphVars>>
    \/ RenderEnd
          /\ UNCHANGED <<pcVars, skyVars, rtVars, assetVars, meshVars, graphVars>>

\* refreshes the application asks for itself, on a scene whose objects it moves
RefreshNext ==
    \/ \E object \in Meshes : \E pos \in Positions :
          SceneEdit /\ SetPosition(object, pos)
    \/ \E object \in Movable : \E updateChildren \in BOOLEAN :
          UpdateWorldMatrix(object, FALSE, updateChildren)
             /\ UNCHANGED <<pcVars, skyVars, rtVars, assetVars, frameVars, meshVars>>

----------------------------------------------------------------------------
(* Mesh: geometry and bounding box *)

\* the BoxGeometry objects of the application: geometry g has half extent g
Geometries == 1..MaxGeometries

\* this._boundingBox === null
NoBox == [none |-> TRUE]

\* the box computed from the positions of a geometry: BoundingBox(min, max)
BoundingBox_fromGeometry(geometry) == [min |-> 0 - geometry, max |-> geometry]

\* mutant: the setter keeps the cached box
Mesh_setGeometry_keepsBox(geometryOf, cache, mesh, geometry) ==
    [geometry |-> [geometryOf EXCEPT ![mesh] = geometry], cache |-> cache]

\* set geometry(value): the geometry is replaced and the cache invalidated
Mesh_setGeometry(geometryOf, cache, mesh, geometry) ==
    [geometry |-> [geometryOf EXCEPT ![mesh] = geometry],
     cache    |-> [cache EXCEPT ![mesh] = NoBox]]

\* get boundingBox(): the cached box, or a new one computed from the geometry
\* and cached.  The n-th box made for a mesh is the object <<mesh, n>>.
Mesh_boundingBox(geometryOf, cache, next, mesh) ==
    IF cache[mesh] # NoBox
    THEN [box |-> cache[mesh], cache |-> cache, next |-> next]
    ELSE LET box == [object |-> <<mesh, next[mesh]>>,
                     value  |-> BoundingBox_fromGeometry(geometryOf[mesh])]
         IN  [box   |-> box,
              cache |-> [cache EXCEPT ![mesh] = box],
              next  |-> [next EXCEPT ![mesh] = @ + 1]]

BoxInit ==
    /\ meshGeometry = [m \in Meshes |-> 1]
    /\ boundingBox = [m \in Meshes |-> NoBox]
    /\ boxNext = [m \in Meshes |-> 1]
    /\ sinceAssign = [m \in Meshes |-> NoBox]
    /\ lastBox = [op |-> "new"]

\* mesh.geometry = geometry
SetGeometry(mesh, geometry) ==
    LET r == Mesh_setGeometry(meshGeometry, boundingBox, mesh, geometry)
    IN  /\ meshGeometry[mesh] # geometry
        /\ meshGeometry' = r.geometry
        /\ boundingBox' = r.cache
        /\ sinceAssign' = [sinceAssign EXCEPT ![mesh] = NoBox]
        /\ lastBox' = [op |-> "assign", mesh |-> mesh]
        /\ UNCHANGED boxNext

\* const box = mesh.boundingBox
ReadBoundingBox(mesh) ==
    LET r == Mesh_boundingBox(meshGeometry, boundingBox, boxNext, mesh)
    IN  /\ r.next[mesh] <= MaxBoxes + 1
        /\ boundingBox' = r.cache
        /\ boxNext' = r.next
        /\ sinceAssign' = [sinceAssign EXCEPT ![mesh] = r.box]
        /\ lastBox' = [op |-> "read", mesh |-> mesh, box |-> r.box,
                       earlier |-> sinceAssign[mesh]]
        /\ UNCHANGED meshGeometry

boxRest == <<pcVars, skyVars, rtVars, frameVars, meshVars, graphVars, loads,
             matVars, shaderVars, lutVars>>

\* any sequence of geometry assignments and boundingBox reads
BoundsNext ==
    \/ \E mesh \in Meshes : \E geometry \in Geometries :
          SetGeometry(mesh, geometry) /\ UNCHANGED boxRest
    \/ \E mesh \in Meshes : ReadBoundingBox(mesh) /\ UNCHANGED boxRest

----------------------------------------------------------------------------
(* Texture.fromURL *)

Loads == 1..MaxLoads

\* what can go wrong in the synchronous part of fromURL after the image was
\* decoded ("none": nothing)
DeviceFailures == {"none", "format", "createTexture", "copy", "createSampler"}

\* a call that has not been made
NotCalled == [pc |-> "new", bitmap |-> "none", texture |-> "none",
              error |-> "none"]

\* the catch block: the error is wrapped and thrown again, the promise rejects
Texture_fromURL_catch(load, error) == [load EXCEPT !.pc = "rejected", !.error = error]

\* the statements of fromURL from `const imageBitmap = await
\* createImageBitmap(blob)` to the end, for a decoded image, when `failure`
\* goes wrong: imageBitmap.close() is called in the format test and before the
\* return
Texture_fromURL_upload(load, failure) ==
    LET decoded == [load EXCEPT !.bitmap = "open"]
    IN  IF failure = "format"
        THEN Texture_fromURL_catch([decoded EXCEPT !.bitmap = "closed"], failure)
        ELSE IF failure = "createTexture"
        THEN Texture_fromURL_catch(decoded, failure)
        ELSE IF failure \in {"copy", "createSampler"}
        THEN Texture_fromURL_catch([decoded EXCEPT !.texture = "live"], failure)
        ELSE [decoded EXCEPT !.pc = "resolved", !.texture = "live",
                             !.bitmap = "closed"]

LoadInit == loads = [l \in Loads |-> NotCalled]

\* Texture.fromURL(device, url, options) is called: it runs up to `await fetch`
FromURL(l) ==
    /\ loads[l].pc = "new"
    /\ loads' = [loads EXCEPT ![l].pc = "fetch"]

\* fetch settles: it rejects (network), or resolves with response.ok or not
FetchSettles(l, result) ==
    /\ loads[l].pc = "fetch"
    /\ loads' = [loads EXCEPT ![l] =
                    IF result = "ok" THEN [@ EXCEPT !.pc = "blob"]
                    ELSE Texture_fromURL_catch(@, result)]

\* response.blob() settles, with a blob of an image type or not
BlobSettles(l, result) ==
    /\ loads[l].pc = "blob"
    /\ loads' = [loads EXCEPT ![l] =
                    IF result = "image" THEN [@ EXCEPT !.pc = "decode"]
                    ELSE Texture_fromURL_catch(@, result)]

\* createImageBitmap settles: it rejects, or resolves and the rest of the
\* function runs
DecodeSettles(l, decoded, failure) ==
    /\ loads[l].pc = "decode"
    /\ loads' = [loads EXCEPT ![l] =
                    IF decoded THEN Texture_fromURL_upload(@, failure)
                    ELSE Texture_fromURL_catch(@, "decode")]

loadRest == <<pcVars, skyVars, rtVars, frameVars, meshVars, graphVars,
              meshGeometry, boundingBox, boxNext, sinceAssign, lastBox, matVars,
             shaderVars, lutVars>>

\* texture loads, running side by side
LoadNext ==
    \/ \E l \in Loads : FromURL(l) /\ UNCHANGED loadRest
    \/ \E l \in Loads : \E result \in {"ok", "network", "status"} :
          FetchSettles(l, result) /\ UNCHANGED loadRest
    \/ \E l \in Loads : \E result \in {"image", "notImage"} :
          BlobSettles(l, result) /\ UNCHANGED loadRest
    \/ \E l \in Loads : \E decoded \in BOOLEAN : \E failure \in DeviceFailures :
          DecodeSettles(l, decoded, failure) /\ UNCHANGED loadRest

----------------------------------------------------------------------------
(* PBRMaterial: the uniform writer *)

\* getUniformBufferSize()
PBRMaterial_getUniformBufferSize == 512

\* const maxLights = 4
PBRMaterial_maxLights == 4

\* the byte size of one light slot: position 16 + color 16 + params 16
PBRMaterial_lightStride == 48

\* the kinds of lights: AmbientLight, DirectionalLight, PointLight
LightKinds == {"ambient", "directional", "point"}

\* the byte offsets of n consecutive buffer.setFloat32 calls from base on
\* (each writes the 4 bytes from its offset on)
SetFloat32s(base, n) == {base + 4 * i : i \in 0..(n - 1)}

RECURSIVE PBRMaterial_packLights_unbounded(_, _, _, _)
\* mutant: every non-ambient light is packed, however many there are
PBRMaterial_packLights_unbounded(lights, i, lightIndex, lightBaseOffset) ==
    IF i > Len(lights)
    THEN [writes |-> {}, lightIndex |-> lightIndex]
    ELSE IF lights[i] = "ambient"
    THEN PBRMaterial_packLights_unbounded(lights, i + 1, lightIndex, lightBaseOffset)
    ELSE LET lightOffset == lightBaseOffset + lightIndex * PBRMaterial_lightStride
             rest == PBRMaterial_packLights_unbounded(lights, i + 1, lightIndex + 1,
                                                      lightBaseOffset)
         IN  [writes |-> SetFloat32s(lightOffset, 12) \cup rest.writes,
              lightIndex |-> rest.lightIndex]

RECURSIVE PBRMaterial_packLights(_, _, _, _)
\* the loop over context.lights that fills the light slots, from the i-th light
\* on with lightIndex slots filled: it stops at maxLights, skips ambient lights,
\* and writes the 12 floats of a directional or point light
PBRMaterial_packLights(lights, i, lightIndex, lightBaseOffset) ==
    IF i > Len(lights) \/ lightIndex >= PBRMaterial_maxLights
    THEN [writes |-> {}, lightIndex |-> lightIndex]
    ELSE IF lights[i] = "ambient"
    THEN PBRMaterial_packLights(lights, i + 1, lightIndex, lightBaseOffset)
    ELSE LET lightOffset == lightBaseOffset + lightIndex * PBRMaterial_lightStride
             rest == PBRMaterial_packLights(lights, i + 1, lightIndex + 1,
                                            lightBaseOffset)
         IN  [writes |-> SetFloat32s(lightOffset, 12) \cup rest.writes,
              lightIndex |-> rest.lightIndex]

\* writeUniformData(buffer, offset, context): the offsets of its setFloat32
\* calls and the light count it writes.  hasContext: a context with mesh and
\* camera is passed; lights: context.lights (empty without a context).
PBRMaterial_writeUniformData(offset, hasContext, lights) ==
    LET lightBaseOffset == offset + 224
        packed == PBRMaterial_packLights(lights, 1, 0, lightBaseOffset)
    IN  [offset |-> offset,
         lightCount |-> packed.lightIndex,
         writes |->
            (IF hasContext
             THEN SetFloat32s(offset, 16) \cup SetFloat32s(offset + 64, 16)
                     \cup SetFloat32s(offset + 192, 4)
             ELSE {})
            \cup SetFloat32s(offset + 128, 4)
            \cup SetFloat32s(offset + 144, 4)
            \cup SetFloat32s(offset + 160, 4)
            \cup {offset + 176, offset + 184, offset + 188}
            \cup SetFloat32s(offset + 208, 4)
            \cup packed.writes
            \cup {offset + 180}
            \cup UNION {SetFloat32s(lightBaseOffset + i * PBRMaterial_lightStride, 12) :
                           i \in packed.lightIndex..(PBRMaterial_maxLights - 1)}]

PBRInit ==
    /\ contextLights = <<>>
    /\ pbrWritten = [offset |-> 0, lightCount |-> 0, writes |-> {}]

\* the application adds a light to the scene: the next context has it
PushLight(kind) ==
    /\ Len(contextLights) < MaxLights
    /\ contextLights' = Append(contextLights, kind)
    /\ UNCHANGED pbrWritten

\* material.writeUniformData(dataView, 64, renderContext), as the mesh pass
\* calls it for a material without getUniformDataOffset, or without a context
PBRWrite(hasContext) ==
    /\ pbrWritten' = PBRMaterial_writeUniformData(
                         MVP_SIZE, hasContext,
                         IF hasContext THEN contextLights ELSE <<>>)
    /\ UNCHANGED contextLights

pbrRest == <<pcVars, skyVars, rtVars, frameVars, meshVars, graphVars,
             meshGeometry, boundingBox, boxNext, sinceAssign, lastBox, loads,
             shaderVars, lutVars>>

\* contexts with any lights, and the writes of the material for them
PBRNext ==
    \/ \E kind \in LightKinds : PushLight(kind) /\ UNCHANGED pbrRest
    \/ \E hasContext \in BOOLEAN : PBRWrite(hasContext) /\ UNCHANGED pbrRest

----------------------------------------------------------------------------
(* ShaderMaterial: the constructor *)

\* the sizes an application declares as options.uniformBufferSize
DeclaredSizes == {16, 32, 63, 64, 65, 128}

\* the uniformBufferSize used when the options declare none
ShaderMaterial_defaultSize == 80

\* mutant: the constructor accepts every declared size
ShaderMaterial_rejects_never(size) == FALSE

\* the constructor's test: "uniformBufferSize must be at least 64 bytes"
ShaderMaterial_rejects(size) == size < MVP_SIZE

\* new ShaderMaterial(options): it throws, or yields a material with the
\* declared (or default) size and a data buffer of that size
ShaderMaterial_new(declared, size) ==
    LET uniformBufferSize == IF declared THEN size ELSE ShaderMaterial_defaultSize
    IN  IF ShaderMaterial_rejects(uniformBufferSize)
        THEN [threw |-> TRUE, made |-> <<>>]
        ELSE [threw |-> FALSE,
              made  |-> <<[uniformBufferSize |-> uniformBufferSize,
                           dataBuffer |-> uniformBufferSize]>>]

ShaderInit ==
    /\ shaderMaterials = <<>>
    /\ lastShader = [op |-> "none"]

\* const material = new ShaderMaterial({..., uniformBufferSize: size}), or with
\* no uniformBufferSize when declared is FALSE
NewShaderMaterial(declared, size) ==
    LET r == ShaderMaterial_new(declared, size)
    IN  /\ Len(shaderMaterials) < MaxShaderMaterials
        /\ shaderMaterials' = shaderMaterials \o r.made
        /\ lastShader' = [op |-> "new", declared |-> declared, size |-> size,
                          threw |-> r.threw, before |-> Len(shaderMaterials)]

shaderRest == <<pcVars, skyVars, rtVars, frameVars, meshVars, graphVars,
                meshGeometry, boundingBox, boxNext, sinceAssign, lastBox, loads,
                matVars, lutVars>>

\* constructions of user-shader materials
ShaderNext ==
    \E declared \in BOOLEAN : \E size \in DeclaredSizes :
        NewShaderMaterial(declared, size) /\ UNCHANGED shaderRest

----------------------------------------------------------------------------
(* BRDFLut: the shared lookup texture of one device *)

LutCalls == 1..MaxLutCalls

\* mutant: getAsync does not look for a generation in progress
BRDFLut_getAsync_noPending(cache, pending, promises, next) ==
    IF cache # 0
    THEN [pc |-> "done", promise |-> 0, result |-> cache,
          pending |-> pending, promises |-> promises, next |-> next]
    ELSE [pc |-> "awaitGeneration", promise |-> Len(promises) + 1, result |-> 0,
          pending  |-> Len(promises) + 1,
          promises |-> Append(promises, [texture |-> next, state |-> "waiting"]),
          next     |-> next + 1]

\* getAsync(device) up to its first await or its return: the cached texture is
\* returned, or the pending promise, or _generateAsync is called (it generates
\* the texture and awaits the queue) and its promise stored and awaited
BRDFLut_getAsync(cache, pending, promises, next) ==
    IF cache # 0
    THEN [pc |-> "done", promise |-> 0, result |-> cache,
          pending |-> pending, promises |-> promises, next |-> next]
    ELSE IF pending # 0
    THEN [pc |-> "awaitPending", promise |-> pending, result |-> 0,
          pending |-> pending, promises |-> promises, next |-> next]
    ELSE [pc |-> "awaitGeneration", promise |-> Len(promises) + 1, result |-> 0,
          pending  |-> Len(promises) + 1,
          promises |-> Append(promises, [texture |-> next, state |-> "waiting"]),
          next     |-> next + 1]

\* get(device): the cached texture, or a texture generated now and cached
BRDFLut_get(cache, next) ==
    IF cache # 0
    THEN [result |-> cache, cache |-> cache, next |-> next]
    ELSE [result |-> next, cache |-> next, next |-> next + 1]

LutInit ==
    /\ lutCache = 0
    /\ lutPending = 0
    /\ lutPromises = <<>>
    /\ lutNext = 1
    /\ lutCalls = [c \in LutCalls |-> [kind |-> "none", pc |-> "new",
                                       promise |-> 0, result |-> 0]]

\* BRDFLut.getAsync(device) is called and runs to its first await or its return
GetAsync(c) ==
    LET r == BRDFLut_getAsync(lutCache, lutPending, lutPromises, lutNext)
    IN  /\ lutCalls[c].pc = "new"
        /\ lutCalls' = [lutCalls EXCEPT ![c] = [kind |-> "getAsync", pc |-> r.pc,
                                                promise |-> r.promise,
                                                result |-> r.result]]
        /\ lutPending' = r.pending
        /\ lutPromises' = r.promises
        /\ lutNext' = r.next
        /\ UNCHANGED lutCache

\* device.queue.onSubmittedWorkDone() resolves: _generateAsync returns its texture
WorkDone(p) ==
    /\ p \in 1..Len(lutPromises)
    /\ lutPromises[p].state = "waiting"
    /\ lutPromises' = [lutPromises EXCEPT ![p].state = "resolved"]
    /\ UNCHANGED <<lutCache, lutPending, lutNext, lutCalls>>

\* the getAsync call that started a generation resumes after `await
\* generationPromise`: it caches the texture, returns it, and its finally block
\* deletes the pending promise
GenerationAwaited(c) ==
    /\ lutCalls[c].pc = "awaitGeneration"
    /\ lutPromises[lutCalls[c].promise].state = "resolved"
    /\ lutCache' = lutPromises[lutCalls[c].promise].texture
    /\ lutPending' = 0
    /\ lutCalls' = [lutCalls EXCEPT ![c].pc = "done",
                                    ![c].result = lutPromises[lutCalls[c].promise].texture]
    /\ UNCHANGED <<lutPromises, lutNext>>

\* the promise of a getAsync call that returned the pending promise resolves
\* with that promise's texture
PendingAwaited(c) ==
    /\ lutCalls[c].pc = "awaitPending"
    /\ lutPromises[lutCalls[c].promise].state = "resolved"
    /\ lutCalls' = [lutCalls EXCEPT ![c].pc = "done",
                                    ![c].result = lutPromises[lutCalls[c].promise].texture]
    /\ UNCHANGED <<lutCache, lutPending, lutPromises, lutNext>>

\* BRDFLut.get(device) is called and returns
Get(c) ==
    LET r == BRDFLut_get(lutCache, lutNext)
    IN  /\ lutCalls[c].pc = "new"
        /\ lutCalls' = [lutCalls EXCEPT ![c] = [kind |-> "get", pc |-> "done",
                                                promise |-> 0, result |-> r.result]]
        /\ lutCache' = r.cache
        /\ lutNext' = r.next
        /\ UNCHANGED <<lutPending, lutPromises>>

lutRest == <<pcVars, skyVars, rtVars, frameVars, meshVars, graphVars,
             meshGeometry, boundingBox, boxNext, sinceAssign, lastBox, loads,
             matVars, shaderVars>>

\* getAsync calls, interleaved at their awaits
LutAsyncNext ==
    \/ \E c \in LutCalls : GetAsync(c) /\ UNCHANGED lutRest
    \/ \E p \in 1..MaxLutCalls : WorkDone(p) /\ UNCHANGED lutRest
    \/ \E c \in LutCalls : GenerationAwaited(c) /\ UNCHANGED lutRest
    \/ \E c \in LutCalls : PendingAwaited(c) /\ UNCHANGED lutRest

\* get and getAsync calls, interleaved at the awaits of getAsync
LutNext ==
    \/ \E c \in LutCalls : Get(c) /\ UNCHANGED lutRest
    \/ \E c \in LutCalls : GetAsync(c) /\ UNCHANGED lutRest
    \/ \E p \in 1..MaxLutCalls : WorkDone(p) /\ UNCHANGED lutRest
    \/ \E c \in LutCalls : GenerationAwaited(c) /\ UNCHANGED lutRest
    \/ \E c \in LutCalls : PendingAwaited(c) /\ UNCHANGED lutRest

\* a step of the application that sets up the scene between two frames; the
\* record of the frame rendered before is dropped
Setup ==
    /\ pc = "idle"
    /\ edits < MaxSetup
    /\ edits' = edits + 1
    /\ frameLog' = <<>>
    /\ frameMeshes' = <<>>
    /\ outcome' = "none"
    /\ UNCHANGED <<pc, view, meshIdx, bound>>

\* the application gives a mesh a texture material
SetTexture(mesh, materialId) ==
    /\ meshMaterial[mesh] # materialId
    /\ meshMaterial' = [meshMaterial EXCEPT ![mesh] = materialId]
    /\ UNCHANGED <<meshResources, bufferData, bufNext, scratch, swaps>>

\* frames of a scene in which the application hides meshes, gives meshes a
\* texture material, and sets the skybox
TextureNext ==
    \/ \E mesh \in Meshes : \E materialId \in TextureMaterials :
          Setup /\ SetTexture(mesh, materialId)
          /\ UNCHANGED <<pcVars, skyVars, rtVars, assetVars>>
          /\ UNCHANGED <<parent, children, position, visible, localMatrix,
                         worldMatrix, sceneSkybox, lastGraph, lastRefresh>>
    \/ \E mesh \in Meshes :
          Setup /\ SetVisible(mesh)
          /\ UNCHANGED <<pcVars, skyVars, rtVars, assetVars, meshVars>>
    \/ \E material \in SkyMaterials :
          Setup /\ SetSkybox(material)
          /\ UNCHANGED <<pcVars, skyVars, rtVars, assetVars, meshVars>>
    \/ RenderBegin /\ UNCHANGED <<pcVars, rtVars, assetVars, meshVars>>
    \/ MeshStep /\ UNCHANGED <<skyVars, rtVars, assetVars, graphVars>>
    \/ RenderEnd
          /\ UNCHANGED <<pcVars, skyVars, rtVars, assetVars, meshVars, graphVars>>

----------------------------------------------------------------------------
(* Specifications *)

Init ==
    /\ PCInit
    /\ SkyInit
    /\ RTInit
    /\ MeshInit
    /\ FrameInit
    /\ GraphInit
    /\ BoxInit
    /\ LoadInit
    /\ PBRInit
    /\ ShaderInit
    /\ LutInit

Next ==
    \/ PCNext
    \/ SkyNext
    \/ MeshNext
    \/ TargetsNext
    \/ GraphNext
    \/ SceneNext
    \/ TextureNext
    \/ BoundsNext
    \/ RefreshNext
    \/ PBRNext
    \/ ShaderNext
    \/ LutAsyncNext
    \/ LutNext
    \/ LoadNext

Spec == Init /\ [][Next]_vars

SpecPipeline == Init /\ [][PCNext]_vars

SpecSkybox == Init /\ [][SkyNext]_vars

SpecMesh == Init /\ [][MeshNext]_vars

SpecTargets == Init /\ [][TargetsNext]_vars

SpecGraph == Init /\ [][GraphNext]_vars

SpecScene == Init /\ [][SceneNext]_vars

SpecTexture == Init /\ [][TextureNext]_vars

SpecBounds == Init /\ [][BoundsNext]_vars

SpecRefresh == Init /\ [][RefreshNext]_vars

SpecPBR == Init /\ [][PBRNext]_vars

SpecShader == Init /\ [][ShaderNext]_vars

SpecLutAsync == Init /\ [][LutAsyncNext]_vars

SpecLut == Init /\ [][LutNext]_vars

SpecLoad == Init /\ [][LoadNext]_vars

----------------------------------------------------------------------------
(* Claims about PipelineCache *)

\* C1 (as stated): over the whole lifetime of the cache, across getOrCreate and
\* clear calls, no pair (type, topology) ever has two pipeline objects built.
C1_OnePipelinePerPairForever ==
    \A a \in built : \A b \in built :
        (a.type = b.type /\ a.topology = b.topology) => a.pipeline = b.pipeline

\* C1 (amended): between two consecutive clear() calls (same epoch) no pair
\* (type, topology) has two pipeline objects built, and every cached pipeline
\* is the one built for its key in the current epoch.
C1_OnePipelinePerPairPerEpoch ==
    /\ \A a \in built : \A b \in built :
          (a.type = b.type /\ a.topology = b.topology /\ a.epoch = b.epoch)
              => a.pipeline = b.pipeline
    /\ \A k \in DOMAIN pipelineCache :
          \E a \in built : /\ PipelineKey(a) = k
                           /\ a.epoch = epoch
                           /\ a.pipeline = pipelineCache[k]

\* C1 witness: a pair was asked for again in the same epoch after it was built
\* and other pairs were built too, with a clear somewhere before.
C1_Witness ==
    /\ epoch >= 1
    /\ lastCall.op = "getOrCreate"
    /\ ~lastCall.created
    /\ Cardinality({a \in built : a.epoch = epoch}) >= 2

\* C2: with no clear in between (same epoch), any two getOrCreate calls whose
\* materials have the same type and topology returned the identical pipeline.
C2_SamePairSamePipeline ==
    \A a \in returned : \A b \in returned :
        (a.type = b.type /\ a.topology = b.topology /\ a.epoch = b.epoch)
            => a.pipeline = b.pipeline

\* C2 witness: a call by a different material instance got the pipeline another
\* instance had built, after a pipeline of another pair was built in between.
C2_Witness ==
    /\ lastCall.op = "getOrCreate"
    /\ ~lastCall.created
    /\ \E a \in built :
          /\ a.pipeline = lastCall.pipeline
          /\ a.by # lastCall.material.inst
          /\ \E b \in built : b.epoch = a.epoch /\ b.pipeline > a.pipeline

----------------------------------------------------------------------------
(* Claims about SkyboxPass *)

\* two render calls in a row with the same material object
SkySameMaterialTwice ==
    /\ lastSky.op = "render"
    /\ prevSky.op = "render"
    /\ lastSky.material = prevSky.material

\* C5: a render call that follows a render call with the same material whose
\* bindingRevision did not change in between creates no GPU object and uses the
\* same bind group, pipeline and uniform buffer as the call before.
C5_UnchangedRevisionReusesAll ==
    (SkySameMaterialTwice /\ lastSky.revision = prevSky.revision) =>
        /\ lastSky.created = {}
        /\ lastSky.modules = 0
        /\ lastSky.views = 0
        /\ lastSky.bindGroup = prevSky.bindGroup
        /\ lastSky.pipeline = prevSky.pipeline
        /\ lastSky.wrote = prevSky.wrote

\* C5 witness: such a second call happened after the revision had been
\* incremented and the bind group rebuilt earlier on.
C5_Witness ==
    /\ SkySameMaterialTwice
    /\ lastSky.revision = prevSky.revision
    /\ lastSky.revision >= 1
    /\ lastSky.before.bindingRevision = lastSky.revision

\* C6: a render call with the cached record's material whose bindingRevision
\* differs from the cached one builds exactly one new object, the bind group;
\* pipeline and uniform buffer stay the same objects and are not destroyed, and
\* the cached revision becomes the material's revision.
C6_ChangedRevisionRebuildsBindGroupOnly ==
    (/\ lastSky.op = "render"
     /\ lastSky.before # NoResources
     /\ lastSky.before.material = lastSky.material
     /\ lastSky.before.bindingRevision # lastSky.revision) =>
        /\ lastSky.created = {lastSky.bindGroup}
        /\ lastSky.modules = 0
        /\ lastSky.bindGroup # lastSky.before.bindGroup
        /\ lastSky.pipeline = lastSky.before.pipeline
        /\ lastSky.wrote = lastSky.before.uniformBuffer
        /\ lastSky.destroyed = {}
        /\ lastSky.wrote \notin DOMAIN skyDestroyCount
        /\ skyResources # NoResources
        /\ skyResources.material = lastSky.material
        /\ skyResources.bindingRevision = lastSky.revision

\* C6 witness: the revision was incremented between two renders of one material.
C6_Witness ==
    /\ SkySameMaterialTwice
    /\ lastSky.revision # prevSky.revision
    /\ lastSky.created # {}

\* C7: a render call with a material object other than the cached record's
\* destroys the record's uniform buffer and builds a new pipeline, a new uniform
\* buffer and a new bind group; no object of the old record is used.
C7_OtherMaterialRebuildsAll ==
    (/\ lastSky.op = "render"
     /\ lastSky.before # NoResources
     /\ lastSky.before.material # lastSky.material) =>
        /\ lastSky.destroyed = {lastSky.before.uniformBuffer}
        /\ lastSky.before.uniformBuffer \in DOMAIN skyDestroyCount
        /\ lastSky.created = {lastSky.pipeline, lastSky.wrote, lastSky.bindGroup}
        /\ Cardinality(lastSky.created) = 3
        /\ lastSky.created \cap {lastSky.before.pipeline,
                                 lastSky.before.uniformBuffer,
                                 lastSky.before.bindGroup} = {}
        /\ lastSky.modules = 2

\* C7 witness: the material object changed while both materials carried the same
\* bindingRevision as the cached record.
C7_Witness ==
    /\ lastSky.op = "render"
    /\ lastSky.before # NoResources
    /\ lastSky.before.material # lastSky.material
    /\ lastSky.before.bindingRevision = lastSky.revision
    /\ lastSky.destroyed # {}

\* C7 witness for differing revisions
C7_WitnessRevisionsDiffer ==
    /\ lastSky.op = "render"
    /\ lastSky.before # NoResources
    /\ lastSky.before.material # lastSky.material
    /\ lastSky.before.bindingRevision # lastSky.revision

----------------------------------------------------------------------------
(* Claims about MeshPass and MeshResourceCache *)

\* the entries of the frame's log that belong to a mesh
MeshEntries == {i \in DOMAIN frameLog : frameLog[i].mesh # 0}

\* the meshes the mesh pass has drawn in this frame
DrawEntries == {i \in MeshEntries : frameLog[i].do.op = "draw"}

\* C3 (as stated): a mesh whose material (with a uniform writer) reports a data
\* offset below 64 is rejected, and nothing has been written for it: the frame's
\* log holds, for that mesh, no writeBuffer to its uniform buffer, no
\* writeUniformData call and no draw, only the error.
C3_RejectedBeforeAnyWrite ==
    \A i \in MeshEntries :
        LET material == MaterialTable[frameLog[i].materialId]
        IN  (material.writer /\ material.hasOffset /\ material.offset < MVP_SIZE)
                => /\ frameLog[i].do.op \notin {"writeBuffer", "writeUniformData",
                                                "draw"}
                   /\ frameLog[i].do.op = "throw"

\* C4: for a drawn mesh whose material has a uniform writer, size S and data
\* offset o with 64 <= o <= S, the writes to its uniform buffer are the MVP
\* write of bytes [0, 64) and, when S > o, one upload of S - o bytes from scratch
\* byte o to buffer byte o; afterwards bytes [0, 64) hold this frame's MVP of the
\* mesh and bytes [o, S) what the material wrote for the mesh in this frame.
C4_CustomUploadConfined ==
    \A d \in DrawEntries :
        LET e        == frameLog[d]
            material == MaterialTable[e.materialId]
            o        == MeshPass_uniformDataOffset(material)
            S        == material.size
            writes   == {i \in MeshEntries : /\ frameLog[i].mesh = e.mesh
                                             /\ frameLog[i].do.op = "writeBuffer"}
            uploads  == {i \in writes : frameLog[i].do.offset # 0}
            bytes    == bufferData[e.buffer]
        IN  (material.writer /\ o >= MVP_SIZE /\ o <= S) =>
                /\ \A i \in writes \ uploads :
                      frameLog[i].do.size = MVP_SIZE /\ i < d
                /\ \A i \in uploads :
                      /\ frameLog[i].do.offset = o
                      /\ frameLog[i].do.dataOffset = o
                      /\ frameLog[i].do.size = S - o
                      /\ frameLog[i].buffer = e.buffer
                /\ Cardinality(writes \ uploads) = 1
                /\ Cardinality(uploads) = (IF S - o > 0 THEN 1 ELSE 0)
                /\ \A b \in 1..MVP_SIZE : bytes[b] = MvpByte(e.mesh, view)
                /\ \A b \in (o + 1)..S : bytes[b] = MaterialByte(e.mesh, view)
                /\ \A b \in (MVP_SIZE + 1)..o : bytes[b] # MaterialByte(e.mesh, view)

\* C4 witness: a mesh with an 8-byte custom region at offset 72 was drawn into a
\* uniform buffer kept from the frame before.
C4_Witness ==
    \E d \in DrawEntries :
        /\ MaterialTable[frameLog[d].materialId].hasOffset
        /\ MaterialTable[frameLog[d].materialId].offset > MVP_SIZE
        /\ ~frameLog[d].do.rebuilt
        /\ \E i \in MeshEntries : /\ frameLog[i].mesh = frameLog[d].mesh
                                  /\ frameLog[i].do.op = "writeBuffer"
                                  /\ frameLog[i].do.offset > 0

\* C8: the resources a mesh is drawn with were built against the pipeline
\* resolved for it in this frame; if the cache held a record built against
\* another pipeline, that record was invalidated (its uniform buffer is gone)
\* and a new one built.
C8_ResourcesMatchPipeline ==
    \A d \in DrawEntries :
        LET e == frameLog[d]
        IN  /\ e.do.builtFor = e.do.pipeline
            /\ meshResources[e.mesh].pipeline = e.do.pipeline
            /\ (e.do.before # NoResources /\ e.do.before.pipeline # e.do.pipeline)
                  => /\ e.do.rebuilt
                     /\ e.buffer # e.do.before.uniformBuffer
                     /\ e.do.before.uniformBuffer \notin DOMAIN bufferData

\* C8 witness: a mesh was drawn whose cached record had been built against
\* another pipeline (its material was swapped after the frame before).
C8_Witness ==
    \E d \in DrawEntries :
        /\ frameLog[d].do.before # NoResources
        /\ frameLog[d].do.before.pipeline # frameLog[d].do.pipeline

----------------------------------------------------------------------------
(* Claims about RenderTargets and the interleaving of resize with render *)

\* C9: while RenderTargets is not disposed, the textures it created and has not
\* destroyed are exactly the current depth texture and the current msaa texture;
\* a resize replaces both, and destroys each old texture before creating its
\* replacement.
C9_NoTextureLeak ==
    /\ observing =>
          /\ liveTextures = {depthTexture, msaaTexture}
          /\ depthTexture # msaaTexture
    /\ lastTargets.op = "resize" =>
          /\ depthTexture \notin lastTargets.before
          /\ msaaTexture \notin lastTargets.before
          /\ lastTargets.before \cap liveTextures = {}
          /\ \A k \in {"depth", "msaa"} :
                \E i \in DOMAIN lastTargets.log : \E j \in DOMAIN lastTargets.log :
                    /\ lastTargets.log[i] = [op |-> "destroy", kind |-> k,
                                             texture |-> lastTargets.log[i].texture]
                    /\ lastTargets.log[i].texture \in lastTargets.before
                    /\ lastTargets.log[j] = [op |-> "create", kind |-> k,
                                             texture |-> IF k = "depth"
                                                         THEN depthTexture
                                                         ELSE msaaTexture]
                    /\ i < j

\* C9 witness: a second resize has happened.
C9_Witness ==
    /\ lastTargets.op = "resize"
    /\ observing
    /\ texNext > 5

\* C10: while a render call is between beginRenderPass and queue.submit, the
\* attachment textures whose views it bound are still the current ones and
\* (unless RenderTargets was disposed before the frame) not destroyed: no resize
\* has run since beginRenderPass.
C10_NoResizeInsideFrame ==
    pc = "recording" =>
        /\ bound.depth = depthTexture
        /\ bound.msaa = msaaTexture
        /\ observing => {bound.depth, bound.msaa} \subseteq liveTextures

\* C10 witness: a frame is in flight, with a mesh already drawn, after a resize
\* replaced the textures the frame before was rendered to.
C10_Witness ==
    /\ pc = "recording"
    /\ meshIdx > 1
    /\ lastTargets.op = "resize"
    /\ bound.depth > 2

----------------------------------------------------------------------------
(* Claims about Object3D.add and Object3D.remove *)

\* the nodes of a children list
Range(list) == {list[i] : i \in 1..Len(list)}

\* C11: in every reachable graph, for every child that is in A.children with
\* child.parent = A and every node B other than A, B.add(child) leaves a graph
\* where child is no longer in A.children, A.children is one shorter with its
\* other children in the same order, child is the last element of B.children,
\* and child.parent = B.
C11_AddTakesFromPreviousParent ==
    \A child \in Nodes : \A B \in Nodes :
        LET A == parent[child]
            g == Object3D_add(Graph, B, child)
        IN  (A # Null /\ A # B /\ child \in Range(children[A])) =>
                /\ child \notin Range(g.children[A])
                /\ Len(g.children[A]) = Len(children[A]) - 1
                /\ g.children[A] = SelectSeq(children[A], LAMBDA x : x # child)
                /\ Len(g.children[B]) >= 1
                /\ g.children[B][Len(g.children[B])] = child
                /\ g.parent[child] = B

\* C11 witness: an add call has just moved a child away from a parent that
\* keeps another child, to a parent that already had one.
C11_Witness ==
    /\ lastGraph.op = "add"
    /\ lastGraph.how = "moved"
    /\ \E B \in Nodes : \E A \in Nodes :
          /\ A # B
          /\ Len(children[B]) >= 2
          /\ Len(children[A]) >= 1
          /\ parent[children[B][Len(children[B])]] = B

\* C12: after any sequence of add and remove calls, n.parent = p exactly when n
\* occurs in p.children, and every node occurs at most once in all the children
\* lists together.
C12_ParentLinksAgree ==
    /\ \A n \in Nodes : \A p \in Nodes :
          (parent[n] = p) <=> (n \in Range(children[p]))
    /\ \A p \in Nodes : \A q \in Nodes :
          \A i \in 1..Len(children[p]) : \A j \in 1..Len(children[q]) :
              children[p][i] = children[q][j] => (p = q /\ i = j)

\* C12 witness: a node that is its own child and a cycle of two nodes exist,
\* and the last call added a child to the parent it already had.
C12_Witness ==
    /\ lastGraph.op = "add"
    /\ lastGraph.how = "readd"
    /\ \E n \in Nodes : parent[n] = n
    /\ \E a \in Nodes : \E b \in Nodes : a # b /\ parent[a] = b /\ parent[b] = a

----------------------------------------------------------------------------
(* Claims about the refresh of world matrices *)

RECURSIVE Up(_, _)
\* the k-th ancestor of n (Null when the chain of parents ends before)
Up(n, k) == IF k = 0 \/ n = Null THEN n ELSE Up(parent[n], k - 1)

\* the chain of parents of n ends at a parentless node
HasRoot(n) == Up(n, Cardinality(Nodes)) = Null

\* n is the scene or one of its descendants
InScene(n) == \E k \in 0..Cardinality(Nodes) : Up(n, k) = SceneNode

\* n lies on a cycle of parent links (it is its own ancestor)
InCycle(n) == \E k \in 1..Cardinality(Nodes) : Up(n, k) = n

RECURSIVE AncestorsRootFirst(_, _)
\* the ancestors of n, the root first (of a node whose chain of parents ends)
AncestorsRootFirst(n, k) ==
    IF k = 0 \/ parent[n] = Null THEN <<>>
    ELSE Append(AncestorsRootFirst(parent[n], k - 1), parent[n])

\* the local matrix that the current position and scale of n give
CurrentLocal(n) == [s |-> Scale[n], t |-> position[n]]

RECURSIVE CurrentWorld(_, _)
\* the world matrix that the current positions of n and of its ancestors give
CurrentWorld(n, k) ==
    IF k = 0 \/ parent[n] = Null THEN CurrentLocal(n)
    ELSE LET W == CurrentWorld(parent[n], k - 1)
             L == CurrentLocal(n)
         IN  [s |-> Times(W.s, L.s), t |-> Plus(Times(W.s, L.t), W.t)]

\* the refresh of the last render call describes the scene as it is now: no
\* edit was made since
RefreshIsCurrent ==
    lastRefresh.op = "render" /\ outcome \in {"running", "submitted", "threw"}

\* C13 (as stated): whatever graph add and remove have produced, the
\* descendants-only refresh Scene.updateMatrixWorld() of a render call returns.
C13_DescendantsRefreshTerminates ==
    lastRefresh.op = "render" => lastRefresh.refreshed

\* the refresh fails exactly when the scene lies on a cycle of parent links; in
\* particular it returns for every parentless scene
RefreshFailsOnlyOnCycle ==
    (lastRefresh.op = "render" /\ outcome # "none") =>
        (lastRefresh.refreshed <=> ~InCycle(SceneNode))

\* C14: after Scene.updateMatrixWorld() on a tree rooted at a parentless scene,
\* every node reachable from the scene has its localMatrix recomputed from its
\* current position and scale, worldMatrix = parent.worldMatrix x localMatrix
\* (worldMatrix = localMatrix for the scene), and was refreshed exactly once,
\* after its parent.
C14_WorldMatricesCurrent ==
    (RefreshIsCurrent /\ parent[SceneNode] = Null) =>
        /\ lastRefresh.refreshed
        /\ \A n \in Nodes :
              InScene(n) =>
                 /\ localMatrix[n] = CurrentLocal(n)
                 /\ worldMatrix[n] =
                       IF n = SceneNode THEN localMatrix[n]
                       ELSE [s |-> Times(worldMatrix[parent[n]].s, localMatrix[n].s),
                             t |-> Plus(Times(worldMatrix[parent[n]].s,
                                              localMatrix[n].t),
                                        worldMatrix[parent[n]].t)]
                 /\ worldMatrix[n] = CurrentWorld(n, Cardinality(Nodes))
        /\ Range(lastRefresh.sceneOrder) = {n \in Nodes : InScene(n)}
        /\ \A i \in 1..Len(lastRefresh.sceneOrder) :
              \A j \in 1..Len(lastRefresh.sceneOrder) :
                 LET a == lastRefresh.sceneOrder[i]
                     b == lastRefresh.sceneOrder[j]
                 IN  /\ (a = b => i = j)
                     /\ (parent[b] = a => i < j)

\* C14 witness: a parent translated by 10 with a scaled child translated by 5,
\* two levels below the scene, has been refreshed: the child's world matrix
\* translates by 15.
C14_Witness ==
    /\ RefreshIsCurrent
    /\ parent[SceneNode] = Null
    /\ \E n \in Nodes :
          /\ InScene(n)
          /\ parent[n] # SceneNode
          /\ parent[n] # Null
          /\ localMatrix[n] = [s |-> 2, t |-> 5]
          /\ worldMatrix[parent[n]].t = 10
          /\ worldMatrix[n].t = 15

\* the camera's world matrix is the one the current positions give
C15_CameraWorldCurrent ==
    (RefreshIsCurrent /\ lastRefresh.refreshed /\ HasRoot(CameraNode)) =>
        worldMatrix[CameraNode] = CurrentWorld(CameraNode, Cardinality(Nodes))

\* C15 (as stated): the camera step of a render call refreshes every ancestor
\* of the camera, the root first, and then the camera itself, and no other
\* node; so the camera's world matrix is current whether or not its ancestors
\* are part of the scene.
C15_CameraRefreshesAncestors ==
    (RefreshIsCurrent /\ lastRefresh.refreshed /\ HasRoot(CameraNode)) =>
        /\ lastRefresh.cameraOrder =
              Append(AncestorsRootFirst(CameraNode, Cardinality(Nodes)), CameraNode)
        /\ worldMatrix[CameraNode] = CurrentWorld(CameraNode, Cardinality(Nodes))

----------------------------------------------------------------------------
(* Claims about the order of the commands of a frame *)

\* the positions in the frame's log of the entries with a given operation
LogEntries(op) == {i \in DOMAIN frameLog : frameLog[i].do.op = op}

\* the draw entries of the frame, in log order
RECURSIVE Sorted(_)
Sorted(S) ==
    IF S = {} THEN <<>>
    ELSE LET least == CHOOSE x \in S : \A y \in S : x <= y
         IN  <<least>> \o Sorted(S \ {least})

\* the meshes drawn in the frame, in the order of their draw commands
DrawnMeshes ==
    [i \in 1..Cardinality(DrawEntries) |-> frameLog[Sorted(DrawEntries)[i]].mesh]

\* C16: within one frame, every write to the uniform buffer of a drawn mesh
\* (the MVP write at offset 0 and the custom-data write at offset o) comes
\* before the draw command of that mesh, which comes before the submit; the MVP
\* write is always there.
C16_WritesBeforeDraw ==
    \A d \in DrawEntries :
        /\ \A i \in MeshEntries :
              (frameLog[i].mesh = frameLog[d].mesh
               /\ frameLog[i].do.op \in {"writeBuffer", "writeUniformData"})
                  => (i < d /\ frameLog[i].buffer = frameLog[d].buffer)
        /\ \E i \in MeshEntries :
              /\ frameLog[i].mesh = frameLog[d].mesh
              /\ frameLog[i].do.op = "writeBuffer"
              /\ frameLog[i].do.offset = 0
              /\ i < d
        /\ \A k \in LogEntries("submit") : d < k

\* C16 witness: a submitted frame drew a mesh after an MVP write and a custom
\* write at offset 72 to its uniform buffer.
C16_Witness ==
    /\ outcome = "submitted"
    /\ \E d \in DrawEntries : \E i \in MeshEntries :
          /\ frameLog[i].mesh = frameLog[d].mesh
          /\ frameLog[i].do.op = "writeBuffer"
          /\ frameLog[i].do.offset = 72

\* C17: in a frame of a scene with a skybox material, one skybox draw of 3
\* vertices is recorded, after beginRenderPass and before the draw command of
\* every mesh; in a frame of a scene without one, no skybox draw is recorded.
C17_SkyboxDrawsFirst ==
    frameLog # <<>> =>
        IF sceneSkybox # 0
        THEN /\ Cardinality(LogEntries("skyboxDraw")) = 1
             /\ \A k \in LogEntries("skyboxDraw") :
                   /\ frameLog[k].do.vertices = 3
                   /\ lastSky.op = "render"
                   /\ lastSky.material = sceneSkybox
                   /\ lastSky.draw = 3
                   /\ \A b \in LogEntries("beginRenderPass") : b < k
                   /\ \A d \in DrawEntries : k < d
        ELSE LogEntries("skyboxDraw") = {}

\* C17 witness: a submitted frame with a skybox draw and the draws of two meshes.
C17_Witness ==
    /\ outcome = "submitted"
    /\ sceneSkybox # 0
    /\ LogEntries("skyboxDraw") # {}
    /\ Cardinality(DrawEntries) >= 2

RECURSIVE PreOrder(_, _)
RECURSIVE PreOrderAll(_, _, _)
\* the nodes of the subtrees of list[i], list[i + 1], ..., each in pre-order
PreOrderAll(list, i, k) ==
    IF i > Len(list) THEN <<>>
    ELSE PreOrder(list[i], k) \o PreOrderAll(list, i + 1, k)

\* the subtree of n in pre-order: n, then the subtrees of its children from left
\* to right (k bounds the depth)
PreOrder(n, k) ==
    IF k = 0 THEN <<>> ELSE <<n>> \o PreOrderAll(children[n], 1, k - 1)

\* the visible meshes of the scene, in the order of the pre-order traversal
VisibleMeshesInOrder ==
    SelectSeq(PreOrder(SceneNode, Cardinality(Nodes)),
              LAMBDA n : n \in Meshes /\ visible[n])

\* C18: in a frame that completes, the draw commands are one per collected mesh,
\* in the order in which the pre-order traversal of the scene visits the meshes;
\* each is a drawIndexed of the record's index count when that is positive, and
\* otherwise a draw of the mesh's vertex count.
C18_DrawsInTraversalOrder ==
    outcome = "submitted" =>
        /\ DrawnMeshes = frameMeshes
        /\ DrawnMeshes = VisibleMeshesInOrder
        /\ \A d \in DrawEntries :
              LET mesh == frameLog[d].mesh
              IN  IF ResourceIndexCount(mesh) > 0
                  THEN /\ frameLog[d].do.call = "drawIndexed"
                       /\ frameLog[d].do.count = ResourceIndexCount(mesh)
                  ELSE /\ frameLog[d].do.call = "draw"
                       /\ frameLog[d].do.count = Geometry(mesh).vertexCount

\* C18 witness: a completed frame drew two meshes, the one with the larger
\* number first, one with drawIndexed and one with draw.
C18_Witness ==
    /\ outcome = "submitted"
    /\ Len(DrawnMeshes) >= 2
    /\ DrawnMeshes[1] > DrawnMeshes[2]
    /\ \E d \in DrawEntries : frameLog[d].do.call = "drawIndexed"
    /\ \E d \in DrawEntries : frameLog[d].do.call = "draw"

RECURSIVE Descendants(_, _)
\* the nodes reachable from the nodes of S through children links
Descendants(S, k) ==
    IF k = 0 THEN S
    ELSE Descendants(S \cup UNION {Range(children[p]) : p \in S}, k - 1)

\* C19: in a frame that completes, the meshes drawn are exactly the meshes that
\* are reachable from the scene through children links and whose own visible
\* flag is true, whatever the visible flags of their ancestors.
C19_DrawnIffReachableAndVisible ==
    outcome = "submitted" =>
        {frameLog[d].mesh : d \in DrawEntries} =
            {m \in Meshes : /\ m \in Descendants({SceneNode}, Cardinality(Nodes))
                            /\ visible[m]}

\* C19 witness: a completed frame drew a visible mesh whose parent is an
\* invisible mesh, which was not drawn.
C19_Witness ==
    /\ outcome = "submitted"
    /\ \E d \in DrawEntries :
          LET m == frameLog[d].mesh
          IN  /\ parent[m] \in Meshes
              /\ ~visible[parent[m]]
              /\ parent[m] \notin {frameLog[e].mesh : e \in DrawEntries}

\* C20: a render call that returned normally began exactly one render pass,
\* first of all; recorded the skybox draw and every mesh draw after it; then
\* ended the pass exactly once; and last submitted exactly one command buffer.
C20_OnePassOneSubmit ==
    outcome = "submitted" =>
        /\ Len(frameLog) >= 3
        /\ LogEntries("beginRenderPass") = {1}
        /\ LogEntries("end") = {Len(frameLog) - 1}
        /\ LogEntries("submit") = {Len(frameLog)}
        /\ \A d \in DrawEntries \cup LogEntries("skyboxDraw") :
              1 < d /\ d < Len(frameLog) - 1
        /\ LogEntries("throw") = {}
        /\ pc = "idle"

\* C20 witness: a render call returned after a skybox draw and two mesh draws.
C20_Witness ==
    /\ outcome = "submitted"
    /\ pc = "idle"
    /\ Cardinality(LogEntries("skyboxDraw")) = 1
    /\ Cardinality(DrawEntries) >= 2

----------------------------------------------------------------------------
(* Claims about PipelineCache: topologies and clear *)

\* the pipelines getOrCreate calls have returned so far
ReturnedPipelines == {a.pipeline : a \in returned}

\* C28: getOrCreate calls for materials of the same kind and different
\* topologies returned distinct pipelines, kept under distinct keys, and a
\* getOrCreate call for one key leaves the entries of all other keys as they
\* were.
C28_TopologiesHaveOwnEntries ==
    /\ \A a \in returned : \A b \in returned :
          (a.type = b.type /\ a.topology # b.topology)
              => (a.pipeline # b.pipeline /\ PipelineKey(a) # PipelineKey(b))
    /\ \A a \in returned :
          a.epoch = epoch =>
              (PipelineKey(a) \in DOMAIN pipelineCache
               /\ pipelineCache[PipelineKey(a)] = a.pipeline)
    /\ \A material \in PCMaterials :
          LET r == PipelineCache_getOrCreate(pipelineCache, nextPipeline, material)
          IN  /\ DOMAIN r.cache = DOMAIN pipelineCache \cup {PipelineKey(material)}
              /\ \A k \in DOMAIN pipelineCache :
                    k # PipelineKey(material) => r.cache[k] = pipelineCache[k]

\* C28 witness: the cache holds the triangle-list and the line-list pipeline of
\* one kind, and the last call got the older of the two back from the cache
\* after the other was built.
C28_Witness ==
    /\ lastCall.op = "getOrCreate"
    /\ ~lastCall.created
    /\ \E other \in PCMaterials :
          /\ other.type = lastCall.material.type
          /\ other.topology # lastCall.material.topology
          /\ PipelineKey(other) \in DOMAIN pipelineCache
          /\ pipelineCache[PipelineKey(other)] > lastCall.pipeline

\* C29: right after clear() the cache holds no entry; a getOrCreate call after
\* a clear never returns a pipeline that was returned before the clear; and the
\* first call for a key after the clear builds a new pipeline and stores it
\* under the key.
C29_ClearDropsAllEntries ==
    /\ lastCall.op = "clear" => DOMAIN pipelineCache = {}
    /\ \A a \in returned : \A b \in returned :
          a.epoch < b.epoch => a.pipeline # b.pipeline
    /\ \A material \in PCMaterials :
          (~\E a \in returned : /\ a.epoch = epoch
                                /\ PipelineKey(a) = PipelineKey(material))
              => LET r == PipelineCache_getOrCreate(pipelineCache, nextPipeline,
                                                    material)
                 IN  /\ r.created
                     /\ r.pipeline \notin ReturnedPipelines
                     /\ r.cache[PipelineKey(material)] = r.pipeline

\* C29 witness: after a clear, a getOrCreate call built a pipeline for a pair
\* that had a pipeline before the clear.
C29_Witness ==
    /\ epoch >= 1
    /\ lastCall.op = "getOrCreate"
    /\ lastCall.created
    /\ \E a \in returned :
          /\ a.epoch < epoch
          /\ a.type = lastCall.material.type
          /\ a.topology = lastCall.material.topology
          /\ a.pipeline # lastCall.pipeline

----------------------------------------------------------------------------
(* Claims about Object3D.remove *)

\* C30: in every reachable graph, p.remove(c) with c not in p.children leaves
\* every parent reference and every children list as it was (c stays the child
\* of the node q it belongs to); with c in p.children it takes only c out of
\* p.children, keeping the order of the others, sets c.parent to null, and
\* leaves the other nodes' parent references and children lists as they were.
C30_RemoveOnlyItsChild ==
    \A p \in Nodes : \A c \in Nodes :
        LET g == Object3D_remove(Graph, p, c)
        IN  IF c \notin Range(children[p])
            THEN /\ g.children = children
                 /\ g.parent = parent
                 /\ \A q \in Nodes :
                       parent[c] = q =>
                           (g.parent[c] = q /\ c \in Range(g.children[q]))
            ELSE /\ g.children[p] = SelectSeq(children[p], LAMBDA x : x # c)
                 /\ Len(g.children[p]) = Len(children[p]) - 1
                 /\ g.parent[c] = Null
                 /\ \A n \in Nodes \ {c} : g.parent[n] = parent[n]
                 /\ \A n \in Nodes \ {p} : g.children[n] = children[n]

\* C30 witness: the last call was a remove on a node that does not hold the
\* argument, which is the child of another node and still is; and a node with
\* two children exists, from which a remove takes one and keeps the other.
C30_Witness ==
    /\ lastGraph.op = "remove"
    /\ lastGraph.how = "elsewhere"
    /\ \E c \in Nodes : \E q \in Nodes :
          parent[c] = q /\ c \in Range(children[q])
    /\ \E p \in Nodes : Len(children[p]) >= 2

----------------------------------------------------------------------------
(* Claims about the lights of a frame *)

\* the light lists handed to materials in the render contexts of the frame
ContextLights ==
    {frameLog[i].do.lights :
        i \in {j \in LogEntries("writeUniformData") : frameLog[j].mesh # 0}}

\* C26: every light in the light list handed to a material in the render
\* context of a frame has its visible flag set, as every mesh in the list of
\* drawables has.
C26_InvisibleLightsLeftOut ==
    /\ \A lights \in ContextLights : \A light \in Range(lights) : visible[light]
    /\ pc = "recording" => \A i \in 1..Len(frameMeshes) : visible[frameMeshes[i]]

\* the light of the scene is reachable, invisible, and was handed to a material
\* in the frame
C26_InvisibleLightCollected ==
    /\ outcome = "submitted"
    /\ ~visible[LightNode]
    /\ \E lights \in ContextLights : LightNode \in Range(lights)

----------------------------------------------------------------------------
(* Claims about Object3D.traverse *)

\* the subtree of n: n and the nodes reachable from it through children links
Subtree(n) == Descendants({n}, Cardinality(Nodes))

\* the subtree of n is a tree: no node of it lies on a cycle
IsTree(n) == \A d \in Subtree(n) : ~InCycle(d)

\* the nodes root.traverse(f) calls f on, in order
Visits(root) ==
    Object3D_traverse(root, Graph, [visited |-> <<>>, overflow |-> FALSE], 1)

\* the index of node x in a list without repetition
Position(list, x) == CHOOSE i \in 1..Len(list) : list[i] = x

\* C22: in every reachable graph and for every root whose subtree is a tree,
\* root.traverse(f) returns, calls f on every node of the subtree exactly once
\* and on no other node, on a node before each of its descendants, and on the
\* whole subtree of an earlier child before any node of a later child; the
\* traversal of a render call is the one of the scene.
C22_TraverseIsPreOrder ==
    /\ \A root \in Nodes :
          IsTree(root) =>
              LET v == Visits(root)
                  visited == v.visited
              IN  /\ ~v.overflow
                  /\ Range(visited) = Subtree(root)
                  /\ Len(visited) = Cardinality(Subtree(root))
                  /\ visited[1] = root
                  /\ \A a \in Subtree(root) : \A b \in Subtree(a) \ {a} :
                        Position(visited, a) < Position(visited, b)
                  /\ \A p \in Subtree(root) :
                        \A i \in 1..Len(children[p]) :
                           \A j \in (i + 1)..Len(children[p]) :
                              \A a \in Subtree(children[p][i]) :
                                 \A b \in Subtree(children[p][j]) :
                                    Position(visited, a) < Position(visited, b)
    /\ (lastRefresh.op = "render" /\ outcome # "none" /\ ~lastRefresh.overflow)
           => lastRefresh.visited = Visits(SceneNode).visited

\* C22 witness: a render call traversed a scene with two children, the first
\* of which has a child: root, child1, grandchild1, ..., child2.
C22_Witness ==
    /\ lastRefresh.op = "render"
    /\ outcome # "none"
    /\ ~lastRefresh.overflow
    /\ Len(children[SceneNode]) >= 2
    /\ children[children[SceneNode][1]] # <<>>
    /\ Len(lastRefresh.visited) >= 4
    /\ lastRefresh.visited[1] = SceneNode
    /\ lastRefresh.visited[2] = children[SceneNode][1]
    /\ lastRefresh.visited[3] = children[children[SceneNode][1]][1]
    /\ lastRefresh.visited[Len(lastRefresh.visited)]
          = children[SceneNode][Len(children[SceneNode])]

----------------------------------------------------------------------------
(* Claims about the refresh of ancestors *)

\* the path from the root of n down to n
PathTo(n) == Append(AncestorsRootFirst(n, Cardinality(Nodes)), n)

\* n.updateWorldMatrix(true, false) on the matrices the program holds
RefreshUp(n) ==
    Object3D_updateWorldMatrix(n, TRUE, FALSE,
                               [parent |-> parent, children |-> children,
                                position |-> position],
                               [local |-> localMatrix, world |-> worldMatrix,
                                order |-> <<>>, overflow |-> FALSE], 1)

\* C23: in every reachable state and for every node n whose chain of parents
\* ends, n.updateWorldMatrix(true, false) refreshes the nodes of the path from
\* the root to n in that order, leaves on each of them the local matrix of its
\* current position and scale and worldMatrix = parent.worldMatrix x
\* localMatrix (the root: its local matrix), and leaves the matrices of every
\* other node as they were; the first step of setFromCamera is that call on
\* the camera.
C23_AncestorsRefreshedRootFirst ==
    /\ \A n \in Nodes :
          HasRoot(n) =>
              LET r == RefreshUp(n)
              IN  /\ ~r.overflow
                  /\ r.order = PathTo(n)
                  /\ \A a \in Range(PathTo(n)) :
                        /\ r.local[a] = CurrentLocal(a)
                        /\ r.world[a] = CurrentWorld(a, Cardinality(Nodes))
                        /\ r.world[a] =
                              IF parent[a] = Null THEN r.local[a]
                              ELSE [s |-> Times(r.world[parent[a]].s, r.local[a].s),
                                    t |-> Plus(Times(r.world[parent[a]].s,
                                                     r.local[a].t),
                                               r.world[parent[a]].t)]
                  /\ \A b \in Nodes \ Range(PathTo(n)) :
                        /\ r.local[b] = localMatrix[b]
                        /\ r.world[b] = worldMatrix[b]
    /\ (/\ lastRefresh.op = "setFromCamera"
        /\ lastRefresh.edits = edits
        /\ HasRoot(CameraNode)) =>
          /\ ~lastRefresh.overflow
          /\ lastRefresh.order = PathTo(CameraNode)
          /\ \A a \in Range(PathTo(CameraNode)) :
                /\ localMatrix[a] = CurrentLocal(a)
                /\ worldMatrix[a] = CurrentWorld(a, Cardinality(Nodes))

\* C23 witness: setFromCamera refreshed a camera two or more levels below its
\* root, whose world matrix is not the identity now, while a node off the path
\* still holds a local matrix that is out of date.
C23_Witness ==
    /\ lastRefresh.op = "setFromCamera"
    /\ lastRefresh.edits = edits
    /\ ~lastRefresh.overflow
    /\ Len(lastRefresh.order) >= 3
    /\ worldMatrix[CameraNode] # Identity
    /\ \E b \in Nodes \ Range(lastRefresh.order) :
          localMatrix[b] # CurrentLocal(b)

----------------------------------------------------------------------------
(* Claims about the MVP matrix *)

\* the meshes for which the mesh pass of the frame obtained resources: those it
\* has drawn and the one whose material it rejected
Processed == {frameLog[i].mesh : i \in {j \in MeshEntries : frameLog[j].do.op # "throwUV"}}

\* the writes of an MVP matrix for the mesh in the frame
MvpWrites(mesh) ==
    {i \in MeshEntries : /\ frameLog[i].mesh = mesh
                         /\ frameLog[i].do.op = "writeBuffer"
                         /\ frameLog[i].do.offset = 0}

\* C27: for every mesh the mesh pass of the frame has processed, whether or not
\* its material has writeUniformData, the frame holds one write of 64 bytes at
\* offset 0 of the mesh's uniform buffer, of the matrix projection x view x
\* mesh.worldMatrix, and bytes [0, 64) of the buffer hold that matrix.
C27_MvpAlwaysWritten ==
    /\ \A i \in 1..Len(frameMeshes) :
          (i < meshIdx /\ pc = "recording") => frameMeshes[i] \in Processed
    /\ outcome = "submitted" => Processed = Range(frameMeshes)
    /\ \A mesh \in Processed :
          /\ Cardinality(MvpWrites(mesh)) = 1
          /\ \A i \in MvpWrites(mesh) :
                LET pv == [s |-> Times(Camera_projectionMatrix.s,
                                       Camera_viewMatrix(view).s),
                           t |-> Plus(Times(Camera_projectionMatrix.s,
                                            Camera_viewMatrix(view).t),
                                      Camera_projectionMatrix.t)]
                    w  == worldMatrix[mesh]
                IN  /\ frameLog[i].do.size = MVP_SIZE
                    /\ frameLog[i].do.dataOffset = 0
                    /\ frameLog[i].do.mvp =
                          [s |-> Times(pv.s, w.s),
                           t |-> Plus(Times(pv.s, w.t), pv.t)]
                    /\ frameLog[i].buffer = meshResources[mesh].uniformBuffer
                    /\ \A b \in 1..MVP_SIZE :
                          bufferData[frameLog[i].buffer][b] = MvpByte(mesh, view)

\* C27 witness: a frame was submitted in which a mesh whose material has no
\* writeUniformData and a mesh whose material has one were drawn, the first
\* with a world matrix that is not the identity.
C27_Witness ==
    /\ outcome = "submitted"
    /\ \E m \in Processed :
          /\ ~MaterialTable[meshMaterial[m]].writer
          /\ worldMatrix[m] # Identity
          /\ MvpWrites(m) # {}
    /\ \E m \in Processed : MaterialTable[meshMaterial[m]].writer

----------------------------------------------------------------------------
(* Claims about geometry that lacks what the material needs *)

\* the render call threw because the vertex data of a mesh with a texture
\* material could not be interleaved
ThrewForUVs ==
    /\ outcome = "threw"
    /\ frameLog # <<>>
    /\ frameLog[Len(frameLog)].do.op = "throwUV"

\* C21 (as stated): when the render call of a scene with one visible drawable,
\* whose material needs UV coordinates and whose geometry has none, throws, no
\* draw call of any pass, the skybox pass included, has been recorded in the
\* frame.
C21_ThrowsBeforeAnyDraw ==
    (ThrewForUVs /\ Len(frameMeshes) = 1) =>
        /\ DrawEntries = {}
        /\ LogEntries("skyboxDraw") = {}

\* whenever the one visible drawable has a texture material and a geometry
\* without uvs, the render call throws, and no draw of a mesh has been recorded
ThrowsBeforeAnyMeshDraw ==
    /\ (ThrewForUVs /\ Len(frameMeshes) = 1) => DrawEntries = {}
    /\ (/\ outcome \in {"submitted", "threw"}
        /\ Len(frameMeshes) = 1
        /\ meshResources[frameMeshes[1]] = NoResources)
           => (ThrewForUVs <=>
                  (/\ MaterialTable[meshMaterial[frameMeshes[1]]].type = <<"texture">>
                   /\ ~Geometry(frameMeshes[1]).uvs))

----------------------------------------------------------------------------
(* Claims about the bounding box of a mesh *)

\* C24: after any sequence of geometry assignments and boundingBox reads, a
\* read returns the box of the geometry the mesh has at the time of the read,
\* and a read that follows another read of the same mesh with no assignment
\* in between returns the same object
C24_BoxOfCurrentGeometry ==
    lastBox.op = "read" =>
        /\ lastBox.box.value = [min |-> 0 - meshGeometry[lastBox.mesh],
                                max |-> meshGeometry[lastBox.mesh]]
        /\ lastBox.earlier # NoBox => lastBox.box.object = lastBox.earlier.object

\* a second read after a geometry swap that followed a first read: the box is
\* the second one made for the mesh, and it was read before since the swap
C24_Witness ==
    /\ lastBox.op = "read"
    /\ lastBox.box.object[2] = 2
    /\ lastBox.earlier # NoBox
    /\ meshGeometry[lastBox.mesh] # 1

----------------------------------------------------------------------------
(* Claims about the resources of Texture.fromURL *)

\* C25: when the promise of a fromURL call has rejected, whatever the failure,
\* the call holds no open image bitmap and no live GPU texture
C25_ReleasedBeforeReject ==
    \A l \in Loads :
        loads[l].pc = "rejected" =>
            loads[l].bitmap # "open" /\ loads[l].texture # "live"

\* the one failure after decoding that does release the bitmap: a format that
\* copyExternalImageToTexture does not take
FormatFailureClosesBitmap ==
    \A l \in Loads :
        loads[l].pc = "rejected" /\ loads[l].error = "format" =>
            loads[l].bitmap = "closed"

----------------------------------------------------------------------------
(* Claims about the refresh of one node *)

\* parent.worldMatrix x localMatrix for a node with the local matrix L, with
\* the world matrices as they are now
WorldUnderParent(n, L) ==
    IF parent[n] = Null THEN L
    ELSE [s |-> Times(worldMatrix[parent[n]].s, L.s),
          t |-> Plus(Times(worldMatrix[parent[n]].s, L.t), worldMatrix[parent[n]].t)]

\* C31: updateWorldMatrix(false, false) on a node, in whatever state, gives
\* that node the local matrix of its current position and scale and the world
\* matrix parent.worldMatrix x localMatrix, refreshes no other node, and leaves
\* the local and world matrices of every other node as they were; after such a
\* call made by the application the node's matrices are those
C31_OnlySelfRecomputed ==
    /\ \A n \in Nodes :
          LET g == [parent |-> parent, children |-> children, position |-> position]
              r == Object3D_updateWorldMatrix(n, FALSE, FALSE, g,
                                              [local |-> localMatrix,
                                               world |-> worldMatrix,
                                               order |-> <<>>, overflow |-> FALSE], 1)
          IN  /\ ~r.overflow
              /\ r.order = <<n>>
              /\ r.local[n] = CurrentLocal(n)
              /\ r.world[n] = WorldUnderParent(n, CurrentLocal(n))
              /\ \A k \in Nodes \ {n} :
                    r.local[k] = localMatrix[k] /\ r.world[k] = worldMatrix[k]
    /\ (/\ lastRefresh.op = "updateWorldMatrix"
        /\ ~lastRefresh.updateParents
        /\ ~lastRefresh.updateChildren
        /\ lastRefresh.edits = edits
        /\ parent[lastRefresh.object] # lastRefresh.object) =>
          /\ lastRefresh.order = <<lastRefresh.object>>
          /\ localMatrix[lastRefresh.object] = CurrentLocal(lastRefresh.object)
          /\ worldMatrix[lastRefresh.object] =
                WorldUnderParent(lastRefresh.object, CurrentLocal(lastRefresh.object))

\* C31 witness: the application has refreshed, without its children, a node that
\* is not at the origin; its child, which is not at the origin either and was
\* never refreshed, still has the identity as local and world matrix
C31_Witness ==
    /\ lastRefresh.op = "updateWorldMatrix"
    /\ ~lastRefresh.updateParents
    /\ ~lastRefresh.updateChildren
    /\ lastRefresh.edits = edits
    /\ worldMatrix[lastRefresh.object] # Identity
    /\ \E c \in Nodes :
          /\ parent[c] = lastRefresh.object
          /\ CurrentLocal(c) # Identity
          /\ localMatrix[c] = Identity
          /\ worldMatrix[c] = Identity

----------------------------------------------------------------------------
(* Claims about self-parenting and cycles *)

\* a node as the constructor leaves it: no parent, no children
Fresh(n) == parent[n] = Null /\ children[n] = <<>>

\* C32: add accepts self-parenting and cycles.  For every fresh node a, a.add(a)
\* returns with a.parent = a and a.children = [a]; for fresh nodes a # b,
\* a.add(b) followed by b.add(a) returns with a.parent = b, b.parent = a,
\* a.children = [b] and b.children = [a]; no other node is touched.
C32_AddAcceptsCycles ==
    \A a \in Nodes :
        Fresh(a) =>
            /\ LET g == Object3D_add(Graph, a, a)
               IN  /\ g.parent[a] = a
                   /\ g.children[a] = <<a>>
                   /\ \A k \in Nodes \ {a} :
                         g.parent[k] = parent[k] /\ g.children[k] = children[k]
            /\ \A b \in Nodes \ {a} :
                  Fresh(b) =>
                      LET g1 == Object3D_add(Graph, a, b)
                          g2 == Object3D_add(g1, b, a)
                      IN  /\ g1.parent[b] = a
                          /\ g1.children[a] = <<b>>
                          /\ g2.parent[a] = b
                          /\ g2.parent[b] = a
                          /\ g2.children[a] = <<b>>
                          /\ g2.children[b] = <<a>>
                          /\ \A k \in Nodes \ {a, b} :
                                /\ g2.parent[k] = parent[k]
                                /\ g2.children[k] = children[k]

\* C32 witness: the program holds a node that is its own only child and two
\* other nodes that are each the only child of the other, the last call being
\* an add to a parentless child
C32_Witness ==
    /\ lastGraph = [op |-> "add", how |-> "fresh"]
    /\ \E a \in Nodes :
          /\ parent[a] = a
          /\ children[a] = <<a>>
          /\ \E b \in Nodes \ {a} : \E c \in Nodes \ {a, b} :
                /\ parent[b] = c
                /\ parent[c] = b
                /\ children[b] = <<c>>
                /\ children[c] = <<b>>

----------------------------------------------------------------------------
(* Claims about the uniform writer of PBRMaterial *)

\* the number of lights of the context that are not ambient
NonAmbient(lights) == Cardinality({i \in 1..Len(lights) : lights[i] # "ambient"})

\* C33: whatever lights the context holds, every setFloat32 of
\* PBRMaterial.writeUniformData at data offset 64 writes 4 bytes inside
\* [64, 512), and the light count it writes is the number of non-ambient lights
\* up to 4; so it is for the call made last and for a call with the lights the
\* context holds now
C33_PBRWritesConfined ==
    /\ \A hasContext \in BOOLEAN :
          LET w == PBRMaterial_writeUniformData(64, hasContext, contextLights)
          IN  /\ \A b \in w.writes : 64 <= b /\ b + 4 <= 512
              /\ w.lightCount <= 4
              /\ w.lightCount = IF NonAmbient(contextLights) < 4
                                THEN NonAmbient(contextLights) ELSE 4
    /\ \A b \in pbrWritten.writes :
          pbrWritten.offset <= b /\ b + 4 <= PBRMaterial_getUniformBufferSize
    /\ pbrWritten.lightCount <= 4

\* C33 witness: the material has written for a context with five non-ambient
\* lights of both kinds and an ambient light; it packed four, and the last
\* float of the fourth slot, bytes [476, 480), is the highest it wrote
C33_Witness ==
    /\ Len(contextLights) >= 5
    /\ NonAmbient(contextLights) >= 4
    /\ \E i \in 1..Len(contextLights) : contextLights[i] = "point"
    /\ \E i \in 1..Len(contextLights) : contextLights[i] = "directional"
    /\ \E i \in 1..Len(contextLights) : contextLights[i] = "ambient"
    /\ pbrWritten.offset = 64
    /\ pbrWritten.lightCount = 4
    /\ 64 \in pbrWritten.writes
    /\ 476 \in pbrWritten.writes
    /\ pbrWritten = PBRMaterial_writeUniformData(64, TRUE, contextLights)

----------------------------------------------------------------------------
(* Claims about the constructor of ShaderMaterial *)

\* C34: a construction with a declared uniformBufferSize below 64 throws and
\* yields no material; with a declared size of 64 or more it does not throw and
\* yields one material, of that size
C34_SmallSizeRejected ==
    (lastShader.op = "new" /\ lastShader.declared) =>
        IF lastShader.size < 64
        THEN /\ lastShader.threw
             /\ Len(shaderMaterials) = lastShader.before
        ELSE /\ ~lastShader.threw
             /\ Len(shaderMaterials) = lastShader.before + 1
             /\ shaderMaterials[Len(shaderMaterials)].uniformBufferSize =
                   lastShader.size

\* C34 witness: after a material of exactly 64 bytes was made, a construction
\* that declared 63 bytes threw and left no object
C34_Witness ==
    /\ lastShader.op = "new"
    /\ lastShader.declared
    /\ lastShader.size = 63
    /\ lastShader.threw
    /\ Len(shaderMaterials) = 1
    /\ shaderMaterials[1].uniformBufferSize = 64

----------------------------------------------------------------------------
(* Claims about BRDFLut *)

\* the calls that have returned (get) or whose promise has resolved (getAsync)
LutDone == {c \in LutCalls : lutCalls[c].pc = "done"}

\* the LUT textures generated so far
LutGenerated == lutNext - 1

\* C35: whatever the interleaving of getAsync calls, at most one LUT texture is
\* generated (exactly one once a call was made), every call that has resolved
\* has resolved to it, and the cache never holds another
C35_AsyncGenerationDeduplicated ==
    /\ LutGenerated <= 1
    /\ (\E c \in LutCalls : lutCalls[c].pc # "new") => LutGenerated = 1
    /\ \A c \in LutDone : lutCalls[c].result = 1
    /\ lutCache \in {0, 1}
    /\ Len(lutPromises) <= 1

\* C35 witness: one call started the generation, one was made while it was
\* pending, one after the texture was cached, and all three have resolved
C35_Witness ==
    /\ LutGenerated = 1
    /\ \E a \in LutDone : \E b \in LutDone \ {a} : \E c \in LutDone \ {a, b} :
          /\ lutCalls[a].kind = "getAsync"
          /\ lutCalls[a].promise = 1
          /\ lutCalls[b].kind = "getAsync"
          /\ lutCalls[b].promise = 1
          /\ lutCalls[c].kind = "getAsync"
          /\ lutCalls[c].promise = 0
          /\ lutCalls[a].result = lutCalls[b].result
          /\ lutCalls[b].result = lutCalls[c].result

\* C39 (as stated): whatever the interleaving of get and getAsync calls, only
\* one LUT texture is generated for the device and all calls return it
C39_OneSharedTexture ==
    /\ LutGenerated <= 1
    /\ \A c \in LutDone : \A d \in LutDone : lutCalls[c].result = lutCalls[d].result

\* without a getAsync call in progress when get is called, the calls do share
\* one texture: a second texture is generated only by a get that runs while a
\* generation is pending
SecondTextureOnlyWhilePending ==
    LutGenerated >= 2 =>
        \E c \in LutCalls : \E d \in LutCalls :
            /\ lutCalls[c].kind = "getAsync"
            /\ lutCalls[c].promise # 0
            /\ lutCalls[d].kind = "get"
            /\ lutCalls[d].result # lutPromises[lutCalls[c].promise].texture

----------------------------------------------------------------------------
(* Claims about a render call that throws *)

\* C36: when a render call has thrown in the mesh pass, the commands of that
\* frame hold no end of the pass and no submit, whatever was recorded before
\* (the skybox draw, the draws of earlier meshes); and a frame whose commands
\* were submitted did not throw
C36_ThrownFrameNotSubmitted ==
    /\ outcome = "threw" =>
          /\ LogEntries("submit") = {}
          /\ LogEntries("end") = {}
          /\ LogEntries("throw") \cup LogEntries("throwUV") = {Len(frameLog)}
          /\ pc = "idle"
    /\ LogEntries("submit") # {} =>
          /\ outcome = "submitted"
          /\ LogEntries("throw") \cup LogEntries("throwUV") = {}

\* C36 witness: the render call threw on a data offset below 64 at its second
\* mesh, after the draw of the first mesh was recorded
C36_Witness ==
    /\ outcome = "threw"
    /\ LogEntries("throw") = {Len(frameLog)}
    /\ \E d \in DrawEntries :
          /\ d < Len(frameLog)
          /\ frameLog[d].mesh # frameLog[Len(frameLog)].mesh

----------------------------------------------------------------------------
(* Claims about the uniform buffers of SkyboxPass *)

\* the uniform buffers of the pass on which destroy() was never called
SkyLiveBuffers == skyBuffers \ DOMAIN skyDestroyCount

\* C37: over any sequence of render calls, changes of material and of
\* bindingRevision, and dispose calls: the buffer a render call writes and the
\* buffer of the bind group it sets are not destroyed; destroy() is called at
\* most once on each buffer, and only on buffers of the pass; at most one
\* buffer is undestroyed, the one of the record, and none when there is no
\* record (after dispose)
C37_SkyboxBuffersSafe ==
    /\ lastSky.op = "render" =>
          /\ lastSky.wrote \notin DOMAIN skyDestroyCount
          /\ lastSky.uniforms \notin DOMAIN skyDestroyCount
          /\ lastSky.wrote \in skyBuffers
          /\ lastSky.uniforms = lastSky.wrote
    /\ \A b \in DOMAIN skyDestroyCount : skyDestroyCount[b] <= 1
    /\ DOMAIN skyDestroyCount \subseteq skyBuffers
    /\ Cardinality(SkyLiveBuffers) <= 1
    /\ IF skyResources = NoResources
       THEN SkyLiveBuffers = {}
       ELSE SkyLiveBuffers = {skyResources.uniformBuffer}
    /\ lastSky.op = "dispose" => SkyLiveBuffers = {}

\* C37 witness: the pass has rendered with a bind group rebuilt for a changed
\* revision, on its second uniform buffer, the first having been destroyed
C37_Witness ==
    /\ lastSky.op = "render"
    /\ lastSky.created = {lastSky.bindGroup}
    /\ Cardinality(DOMAIN skyDestroyCount) >= 1
    /\ Cardinality(skyBuffers) >= 2
    /\ SkyLiveBuffers = {lastSky.wrote}

----------------------------------------------------------------------------
(* Claims about a scratch buffer shared by several draws *)

\* the draws of the frame whose material hands out one scratch buffer
\* (getUniformDataBuffer) for all its draws
ScratchDraws == {d \in DrawEntries : MaterialTable[frameLog[d].materialId].keepsBuffer}

\* C38: at the end of a frame, the uniform buffer of every mesh drawn with a
\* material that reuses its scratch buffer holds, in [o, S), the bytes the
\* material wrote for that mesh in this frame, and in [0, 64) the MVP of that
\* mesh, although other meshes were drawn with the same material instance
\* before or after it (their bytes are in their own buffers; the scratch buffer
\* holds those of the mesh processed last)
C38_SharedScratchKeepsOwnBytes ==
    outcome = "submitted" =>
        \A d \in ScratchDraws :
            LET e        == frameLog[d]
                material == MaterialTable[e.materialId]
                o        == MeshPass_uniformDataOffset(material)
                bytes    == bufferData[e.buffer]
                last     == CHOOSE x \in ScratchDraws :
                               /\ frameLog[x].materialId = e.materialId
                               /\ \A y \in ScratchDraws :
                                     frameLog[y].materialId = e.materialId => y <= x
            IN  /\ \A b \in (o + 1)..material.size :
                      bytes[b] = MaterialByte(e.mesh, view)
                /\ \A b \in 1..MVP_SIZE : bytes[b] = MvpByte(e.mesh, view)
                /\ \A x \in ScratchDraws :
                      (frameLog[x].materialId = e.materialId
                       /\ frameLog[x].mesh # e.mesh) =>
                          /\ frameLog[x].buffer # e.buffer
                          /\ \A b \in (o + 1)..material.size :
                                bytes[b] # MaterialByte(frameLog[x].mesh, view)
                /\ \A b \in (o + 1)..material.size :
                      scratch[e.materialId][b] = MaterialByte(frameLog[last].mesh, view)

\* C38 witness: a frame was submitted in which two meshes were drawn with the
\* same material instance, which reuses its scratch buffer and has a custom
\* region
C38_Witness ==
    /\ outcome = "submitted"
    /\ \E d \in ScratchDraws : \E x \in ScratchDraws :
          /\ d < x
          /\ frameLog[d].materialId = frameLog[x].materialId
          /\ frameLog[d].mesh # frameLog[x].mesh
          /\ MaterialTable[frameLog[d].materialId].size >
                MeshPass_uniformDataOffset(MaterialTable[frameLog[d].materialId])

====
